---- MODULE Spec2Model ----
(***************************************************************************)
(* Scoring and matchmaking of the startup/investor platform:               *)
(*   backend/src/routes/scoring.ts      score computation and caching      *)
(*   backend/src/routes/matchmaking.ts  Match records, match generation    *)
(*   backend/src/routes/startups.ts     startup creation, GI analysis      *)
(*   services/matchmaking-service       calculateBasicCompatibility        *)
(* All scores are JavaScript numbers, so the arithmetic below is IEEE-754  *)
(* binary64 with round-to-nearest-even, carried out on limb sequences.     *)
(***************************************************************************)
EXTENDS Integers, Sequences, FiniteSets, TLC

(***************************************************************************)
(* Natural numbers as sequences of limbs in base 2^LimbBits, least         *)
(* significant limb first, without leading zero limbs; <<>> is zero.       *)
(***************************************************************************)
LimbBits == 15

Base == 2 ^ LimbBits

RECURSIVE LimbsOf(_)
LimbsOf(n) == IF n = 0 THEN <<>> ELSE <<n % Base>> \o LimbsOf(n \div Base)

RECURSIVE IntOf(_)
IntOf(n) == IF n = <<>> THEN 0 ELSE n[1] + (Base * IntOf(Tail(n)))

RECURSIVE Trim(_)
Trim(n) ==
  IF n = <<>> \/ n[Len(n)] # 0 THEN n ELSE Trim(SubSeq(n, 1, Len(n) - 1))

Limb(n, i) == IF 1 <= i /\ i <= Len(n) THEN n[i] ELSE 0

\* The number of bits of n: 0 for zero.
BitLen(n) ==
  IF n = <<>> THEN 0
  ELSE LimbBits * (Len(n) - 1)
       + (CHOOSE k \in 1..LimbBits : 2 ^ (k - 1) <= n[Len(n)] /\ n[Len(n)] < 2 ^ k)

\* Bit i of n, bit 0 being the least significant.
BitAt(n, i) == (Limb(n, (i \div LimbBits) + 1) \div (2 ^ (i % LimbBits))) % 2

\* n mod 2^k = 0
LowBitsZero(n, k) ==
  /\ \A j \in 1..(k \div LimbBits) : Limb(n, j) = 0
  /\ Limb(n, (k \div LimbBits) + 1) % (2 ^ (k % LimbBits)) = 0

\* n * 2^k
ShiftLeft(n, k) ==
  LET a == k \div LimbBits
      b == k % LimbBits
  IN  Trim([j \in 1..(Len(n) + a + 1) |->
              IF j <= a THEN 0
              ELSE ((Limb(n, j - a) * (2 ^ b)) % Base)
                   + (Limb(n, j - a - 1) \div (2 ^ (LimbBits - b)))])

\* n div 2^k
ShiftRight(n, k) ==
  LET a == k \div LimbBits
      b == k % LimbBits
  IN  IF Len(n) <= a THEN <<>>
      ELSE Trim([j \in 1..(Len(n) - a) |->
                   (Limb(n, j + a) \div (2 ^ b))
                   + ((Limb(n, j + a + 1) % (2 ^ b)) * (2 ^ (LimbBits - b)))])

RECURSIVE AddFrom(_, _, _, _)
AddFrom(a, b, i, c) ==
  IF i > Len(a) /\ i > Len(b)
  THEN (IF c = 0 THEN <<>> ELSE <<c>>)
  ELSE LET s == Limb(a, i) + Limb(b, i) + c
       IN  <<s % Base>> \o AddFrom(a, b, i + 1, s \div Base)

LAdd(a, b) == AddFrom(a, b, 1, 0)

\* a * s for one limb s
RECURSIVE MulLimbFrom(_, _, _, _)
MulLimbFrom(a, s, i, c) ==
  IF i > Len(a)
  THEN (IF c = 0 THEN <<>> ELSE <<c>>)
  ELSE LET p == a[i] * s + c
       IN  <<p % Base>> \o MulLimbFrom(a, s, i + 1, p \div Base)

RECURSIVE MulFrom(_, _, _)
MulFrom(a, b, j) ==
  IF j > Len(b) THEN <<>>
  ELSE LAdd(ShiftLeft(MulLimbFrom(a, b[j], 1, 0), LimbBits * (j - 1)),
            MulFrom(a, b, j + 1))

LMul(a, b) == Trim(MulFrom(a, b, 1))

\* Long division of n by the integer d, 0 < d < Base, most significant limb
\* first: the quotient and the remainder.
RECURSIVE DivFrom(_, _, _, _, _)
DivFrom(n, d, i, r, acc) ==
  IF i = 0 THEN [q |-> Trim(acc), r |-> r]
  ELSE LET t == r * Base + n[i]
       IN  DivFrom(n, d, i - 1, t % d, <<t \div d>> \o acc)

LDivInt(n, d) == DivFrom(n, d, Len(n), 0, <<>>)

\* The number of low zero bits of n # 0.
LowZeros(n) == CHOOSE k \in 0..BitLen(n) : LowBitsZero(n, k) /\ BitAt(n, k) = 1

(***************************************************************************)
(* A non-negative binary64 number is [m, e] with value m * 2^e, where m    *)
(* has exactly Precision bits, or is <<>> for zero.                        *)
(***************************************************************************)
Precision == 53

GuardBits == 30

Zero == [m |-> <<>>, e |-> 0]

\* n * 2^e (plus a non-zero tail below the last bit when sticky) rounded to
\* the nearest representable number, ties to even.
RoundBits(n, e, sticky) ==
  LET L == BitLen(n) IN
  IF L = 0 THEN Zero
  ELSE IF L <= Precision
  THEN [m |-> ShiftLeft(n, Precision - L), e |-> e - (Precision - L)]
  ELSE LET k    == L - Precision
           q    == ShiftRight(n, k)
           rest == sticky \/ ~LowBitsZero(n, k - 1)
           up   == BitAt(n, k - 1) = 1 /\ (rest \/ BitAt(q, 0) = 1)
           q2   == IF up THEN LAdd(q, <<1>>) ELSE q
       IN  IF BitLen(q2) > Precision
           THEN [m |-> ShiftRight(q2, 1), e |-> e + k + 1]
           ELSE [m |-> q2, e |-> e + k]

FromInt(i) == RoundBits(LimbsOf(i), 0, FALSE)

FAdd(x, y) ==
  IF x.m = <<>> THEN y
  ELSE IF y.m = <<>> THEN x
  ELSE LET e == IF x.e < y.e THEN x.e ELSE y.e
       IN  RoundBits(LAdd(ShiftLeft(x.m, x.e - e), ShiftLeft(y.m, y.e - e)),
                     e, FALSE)

FMul(x, y) ==
  IF x.m = <<>> \/ y.m = <<>> THEN Zero
  ELSE RoundBits(LMul(x.m, y.m), x.e + y.e, FALSE)

\* x / y for a divisor whose odd part is below Base (every divisor of the
\* scoring code is a small whole number: 10, 30, 100, 1000 or a list length).
FDiv(x, y) ==
  IF x.m = <<>> THEN Zero
  ELSE LET zy == LowZeros(y.m)
           d  == IntOf(ShiftRight(y.m, zy))
           qr == LDivInt(ShiftLeft(x.m, GuardBits), d)
       IN  RoundBits(qr.q, x.e - GuardBits - (y.e + zy), qr.r # 0)

\* Math.round: the nearest integer, a tie going up.
MathRound(x) ==
  IF x.m = <<>> THEN 0
  ELSE IF x.e >= 0 THEN IntOf(ShiftLeft(x.m, x.e))
  ELSE IntOf(ShiftRight(x.m, 0 - x.e)) + BitAt(x.m, (0 - x.e) - 1)

MathMin(a, b) == IF a < b THEN a ELSE b

\* A decimal literal num/den of the source (0.30 is Lit(30, 100)): the nearest
\* binary64 number.
Lit(num, den) == FDiv(FromInt(num), FromInt(den))

\* An optional value (undefined or null when absent): <<>> or <<v>>.
None == <<>>

Some(v) == <<v>>

Val(o) == o[1]

(***************************************************************************)
(* backend/src/routes/scoring.ts: the score formulas.  Time is counted in  *)
(* hours; a date is the hour it names.                                     *)
(***************************************************************************)
HoursPerDay == 24

WindowDays == 30

StaleHours == 24

\* commits, tweets: the dates of the fetched items.
RecentCount(dates, now) ==
  Cardinality({i \in DOMAIN dates : dates[i] > now - (WindowDays * HoursPerDay)})

calculateCodeActivity(commits, now) ==
  IF Len(commits) = 0 THEN 0
  ELSE LET frequency == FDiv(FromInt(RecentCount(commits, now)), FromInt(30))
       IN  MathMin(MathRound(FMul(frequency, FromInt(25))), 100)

\* The engagement sum taken as the score, the division by 10 left out.
calculateCommunityEngagement_unscaled(repoData) ==
  LET engagement ==
        FAdd(FAdd(FMul(FromInt(repoData.stargazers_count), Lit(5, 10)),
                  FMul(FromInt(repoData.forks_count), Lit(3, 10))),
             FMul(FromInt(repoData.watchers_count), Lit(2, 10)))
  IN  MathMin(MathRound(engagement), 100)

calculateCommunityEngagement(repoData) ==
  LET engagement ==
        FAdd(FAdd(FMul(FromInt(repoData.stargazers_count), Lit(5, 10)),
                  FMul(FromInt(repoData.forks_count), Lit(3, 10))),
             FMul(FromInt(repoData.watchers_count), Lit(2, 10)))
  IN  MathMin(MathRound(FDiv(engagement, FromInt(10))), 100)

\* prs: for each pull request whether merged_at is set; issues: each state.

\* A term without items counted as 50 instead of 0, and no early return.
calculateProjectMaintenance_emptyIsFull(prs, issues) ==
  LET mergedPRs     == Cardinality({i \in DOMAIN prs : prs[i]})
      closedIssues  == Cardinality({i \in DOMAIN issues : issues[i] = "closed"})
      prMaintenance ==
        IF Len(prs) > 0
        THEN FMul(FDiv(FromInt(mergedPRs), FromInt(Len(prs))), FromInt(50))
        ELSE FromInt(50)
      issueMaintenance ==
        IF Len(issues) > 0
        THEN FMul(FDiv(FromInt(closedIssues), FromInt(Len(issues))), FromInt(50))
        ELSE FromInt(50)
  IN  MathRound(FAdd(prMaintenance, issueMaintenance))

calculateProjectMaintenance(prs, issues) ==
  IF Len(prs) = 0 /\ Len(issues) = 0 THEN 0
  ELSE LET mergedPRs     == Cardinality({i \in DOMAIN prs : prs[i]})
           closedIssues  == Cardinality({i \in DOMAIN issues : issues[i] = "closed"})
           prMaintenance ==
             IF Len(prs) > 0
             THEN FMul(FDiv(FromInt(mergedPRs), FromInt(Len(prs))), FromInt(50))
             ELSE Zero
           issueMaintenance ==
             IF Len(issues) > 0
             THEN FMul(FDiv(FromInt(closedIssues), FromInt(Len(issues))), FromInt(50))
             ELSE Zero
       IN  MathRound(FAdd(prMaintenance, issueMaintenance))

\* The open-issues test inverted.
calculateCodeQuality_openIssuesInverted(repoData) ==
  LET s1 == IF repoData.stargazers_count > 100 THEN 20 ELSE 0
      s2 == IF repoData.forks_count > 10 THEN 20 ELSE 0
      s3 == IF repoData.open_issues_count > 10 THEN 20 ELSE 0
      s4 == IF repoData.size > 1000 THEN 20 ELSE 0
      s5 == IF repoData.language # None THEN 20 ELSE 0
  IN  MathMin(s1 + s2 + s3 + s4 + s5, 100)

calculateCodeQuality(repoData) ==
  LET s1 == IF repoData.stargazers_count > 100 THEN 20 ELSE 0
      s2 == IF repoData.forks_count > 10 THEN 20 ELSE 0
      s3 == IF repoData.open_issues_count < 10 THEN 20 ELSE 0
      s4 == IF repoData.size > 1000 THEN 20 ELSE 0
      s5 == IF repoData.language # None THEN 20 ELSE 0
  IN  MathMin(s1 + s2 + s3 + s4 + s5, 100)

\* Math.floor in place of Math.round.
MathFloor(x) ==
  IF x.m = <<>> THEN 0
  ELSE IF x.e >= 0 THEN IntOf(ShiftLeft(x.m, x.e))
  ELSE IntOf(ShiftRight(x.m, 0 - x.e))

TechWeighted_floor(codeActivity, communityEngagement, projectMaintenance, codeQuality) ==
  MathFloor(FAdd(FAdd(FAdd(FMul(FromInt(codeActivity), Lit(30, 100)),
                           FMul(FromInt(communityEngagement), Lit(25, 100))),
                      FMul(FromInt(projectMaintenance), Lit(25, 100))),
                 FMul(FromInt(codeQuality), Lit(20, 100))))


\* The weighted sum capped by a remainder instead of a minimum.
TechWeighted_wraps(codeActivity, communityEngagement, projectMaintenance, codeQuality) ==
  MathRound(FAdd(FAdd(FAdd(FMul(FromInt(codeActivity), Lit(30, 100)),
                           FMul(FromInt(communityEngagement), Lit(25, 100))),
                      FMul(FromInt(projectMaintenance), Lit(25, 100))),
                 FMul(FromInt(codeQuality), Lit(20, 100)))) % 100

\* The weighted sum of calculateTechScore.
TechWeighted(codeActivity, communityEngagement, projectMaintenance, codeQuality) ==
  MathRound(FAdd(FAdd(FAdd(FMul(FromInt(codeActivity), Lit(30, 100)),
                           FMul(FromInt(communityEngagement), Lit(25, 100))),
                      FMul(FromInt(projectMaintenance), Lit(25, 100))),
                 FMul(FromInt(codeQuality), Lit(20, 100))))

\* The record calculateTechScore computes from the fetched data and upserts.
TechScoreOf(github, now) ==
  LET codeActivity        == calculateCodeActivity(github.commits, now)
      communityEngagement == calculateCommunityEngagement(github.repoData)
      projectMaintenance  == calculateProjectMaintenance(github.prs, github.issues)
      codeQuality         == calculateCodeQuality(github.repoData)
  IN  [score               |-> TechWeighted(codeActivity, communityEngagement,
                                            projectMaintenance, codeQuality),
       codeActivity        |-> codeActivity,
       communityEngagement |-> communityEngagement,
       projectMaintenance  |-> projectMaintenance,
       codeQuality         |-> codeQuality,
       lastUpdated         |-> now]

\* metrics is user.public_metrics; a field it lacks reads as undefined.
calculateReach(metrics) ==
  LET base  == MathMin(MathRound(FDiv(FromInt(metrics.followers_count),
                                      FromInt(1000))), 50)
      bonus == IF "verified" \in DOMAIN metrics /\ metrics.verified THEN 20 ELSE 0
  IN  MathMin(base + bonus, 100)

RECURSIVE TotalEngagement(_, _)
TotalEngagement(tweets, i) ==
  IF i > Len(tweets) THEN 0
  ELSE tweets[i].like_count + tweets[i].retweet_count + tweets[i].reply_count
       + TotalEngagement(tweets, i + 1)

calculateEngagement(tweets) ==
  IF Len(tweets) = 0 THEN 0
  ELSE LET avgEngagement ==
             FDiv(FromInt(TotalEngagement(tweets, 1)), FromInt(Len(tweets)))
       IN  MathMin(MathRound(FDiv(avgEngagement, FromInt(10))), 100)

calculateActivity(tweets, now) ==
  IF Len(tweets) = 0 THEN 0
  ELSE LET dates     == [i \in DOMAIN tweets |-> tweets[i].created_at]
           frequency == FDiv(FromInt(RecentCount(dates, now)), FromInt(30))
       IN  MathMin(MathRound(FMul(frequency, FromInt(20))), 100)

\* The weighted sum of calculateSocialScore.
SocialWeighted(reach, engagement, activity) ==
  MathRound(FAdd(FAdd(FMul(FromInt(reach), Lit(40, 100)),
                      FMul(FromInt(engagement), Lit(35, 100))),
                 FMul(FromInt(activity), Lit(25, 100))))

\* The record calculateSocialScore computes from the fetched data and upserts.
SocialScoreOf(twitter, now) ==
  LET reach      == calculateReach(twitter.user.public_metrics)
      engagement == calculateEngagement(twitter.tweets)
      activity   == calculateActivity(twitter.tweets, now)
  IN  [score       |-> SocialWeighted(reach, engagement, activity),
       reach       |-> reach,
       engagement  |-> engagement,
       activity    |-> activity,
       lastUpdated |-> now]

\* The literals 0.4, 0.3 and 0.3 of calculateOverallScore.
TechShare == Lit(40, 100)

SocialShare == Lit(30, 100)

GIShare == Lit(30, 100)

\* The GI share weighted 0.40 instead of 0.30.
calculateOverallScore_heavyGI(techScore, socialScore, giScore) ==
  LET tech   == IF techScore = None THEN 0 ELSE Val(techScore).score
      social == IF socialScore = None THEN 0 ELSE Val(socialScore).score
      gi     == IF giScore = None THEN 0 ELSE Val(giScore).marketPotential
  IN  MathRound(FAdd(FAdd(FMul(FromInt(tech), Lit(40, 100)),
                          FMul(FromInt(social), Lit(30, 100))),
                     FMul(FromInt(gi), Lit(40, 100))))

\* techScore, socialScore: an optional score record; giScore: an optional GI
\* analysis record.
calculateOverallScore(techScore, socialScore, giScore) ==
  LET tech   == IF techScore = None THEN 0 ELSE Val(techScore).score
      social == IF socialScore = None THEN 0 ELSE Val(socialScore).score
      gi     == IF giScore = None THEN 0 ELSE Val(giScore).marketPotential
  IN  MathRound(FAdd(FAdd(FMul(FromInt(tech), TechShare),
                          FMul(FromInt(social), SocialShare)),
                     FMul(FromInt(gi), GIShare)))

isScoreStale(lastUpdated, now) == now - lastUpdated > StaleHours

(***************************************************************************)
(* backend/src/routes/matchmaking.ts and services/matchmaking-service:     *)
(* the match score.                                                        *)
(***************************************************************************)
\* Each continuous term rounded on its own before it is added.
MatchSum_roundedTerms(industryHit, stageHit, techScore, socialScore, teamHit, fundingHit) ==
  LET s1 == FAdd(Zero, IF industryHit THEN FromInt(30) ELSE Zero)
      s2 == FAdd(s1, IF stageHit THEN FromInt(25) ELSE Zero)
      s3 == FAdd(s2, FromInt(MathRound(
                   FMul(FDiv(FromInt(techScore), FromInt(100)), FromInt(20)))))
      s4 == FAdd(s3, FromInt(MathRound(
                   FMul(FDiv(FromInt(socialScore), FromInt(100)), FromInt(15)))))
      s5 == FAdd(s4, IF teamHit THEN FromInt(5) ELSE Zero)
  IN  FAdd(s5, IF fundingHit THEN FromInt(5) ELSE Zero)

\* The score before Math.round, accumulated in the order of the source.
MatchSum(industryHit, stageHit, techScore, socialScore, teamHit, fundingHit) ==
  LET s1 == FAdd(Zero, IF industryHit THEN FromInt(30) ELSE Zero)
      s2 == FAdd(s1, IF stageHit THEN FromInt(25) ELSE Zero)
      s3 == FAdd(s2, FMul(FDiv(FromInt(techScore), FromInt(100)), FromInt(20)))
      s4 == FAdd(s3, FMul(FDiv(FromInt(socialScore), FromInt(100)), FromInt(15)))
      s5 == FAdd(s4, IF teamHit THEN FromInt(5) ELSE Zero)
  IN  FAdd(s5, IF fundingHit THEN FromInt(5) ELSE Zero)

\* An absent amount (undefined, null) is falsy, and so is 0.
Truthy(amount) == amount # None /\ Val(amount) # 0


\* An investor without preferences taken to prefer everything.
calculateMatchScore_emptyPrefersAll(investor, startup) ==
  MathRound(MatchSum(
    \/ investor.preferredIndustries = {}
    \/ startup.landType \in investor.preferredIndustries,
    \/ investor.preferredStages = {}
    \/ startup.stage \in investor.preferredStages,
    startup.techScore,
    startup.socialScore,
    startup.teamSize >= investor.teamSizeMin,
    /\ Truthy(startup.fundingRequired)
    /\ Val(startup.fundingRequired) >= investor.investmentRangeMin
    /\ Val(startup.fundingRequired) <= investor.investmentRangeMax))

\* The funding condition of the match score.
FundingInRange(investor, startup) ==
  /\ Truthy(startup.fundingRequired)
  /\ Val(startup.fundingRequired) >= investor.investmentRangeMin
  /\ Val(startup.fundingRequired) <= investor.investmentRangeMax

calculateMatchScore(investor, startup) ==
  MathRound(MatchSum(
    startup.landType \in investor.preferredIndustries,
    startup.stage \in investor.preferredStages,
    startup.techScore,
    startup.socialScore,
    startup.teamSize >= investor.teamSizeMin,
    /\ Truthy(startup.fundingRequired)
    /\ Val(startup.fundingRequired) >= investor.investmentRangeMin
    /\ Val(startup.fundingRequired) <= investor.investmentRangeMax))

calculateBasicCompatibility(investor, project) ==
  MathRound(MatchSum(
    project.industry \in investor.preferredIndustries,
    project.stage \in investor.preferredStages,
    project.techScore,
    project.socialScore,
    project.teamSize >= investor.teamSizeMin,
    /\ Truthy(project.fundingGoal)
    /\ Val(project.fundingGoal) >= investor.investmentRangeMin
    /\ Val(project.fundingGoal) <= investor.investmentRangeMax))

(***************************************************************************)
(* The state.                                                              *)
(***************************************************************************)
VARIABLES
  call,             \* the last call of a score function: its inputs and result
  matches,          \* the Match table: id -> record
  nextMatchId,      \* the id the next created Match gets
  creq,             \* the POST /api/matchmaking requests
  greq,             \* the POST /api/matchmaking/generate requests
  mreq,             \* the PUT and DELETE /api/matchmaking/:id requests
  startups,         \* the AgriTechStartup table: id -> record
  techScoreData,    \* the TechScore table: startup id -> record
  socialScoreData,  \* the SocialScore table: startup id -> record
  giAnalysisData,   \* the GIAnalysis table: startup id -> record
  agriTechMetrics,  \* the AgriTechMetrics table: startup id -> record
  clock,            \* the hour new Date() reads
  startupReq,       \* the POST /api/startups requests
  updateReq,        \* the PUT /api/startups/:id requests
  calcReq,          \* the POST /api/scoring/calculate requests
  scoresReq,        \* the GET /api/scoring/startup/:id requests
  jobs,             \* the jobs of the matchmaking queue: id -> record
  jobReq,           \* the POST /generate-matches requests of the service
  cron,             \* the scheduled matchmaking run of the service
  discoveries,      \* the GeoSocialDiscovery table: id -> record
  discoverReq,      \* the POST /api/discovery/discover requests
  verifyReq         \* the PUT /api/discovery/:id/verify requests

matchVars == <<matches, nextMatchId, creq, greq, mreq>>

scoreVars ==
  <<techScoreData, socialScoreData, giAnalysisData, agriTechMetrics, clock,
    startupReq, updateReq, calcReq, scoresReq>>

queueVars == <<jobs, jobReq, cron>>

discVars == <<discoveries, discoverReq, verifyReq>>

vars == <<call, matchVars, startups, scoreVars, queueVars, discVars>>

\* The tables and requests of the scoring endpoints, with nothing on record.
ScoreIdle ==
  /\ techScoreData = <<>>
  /\ socialScoreData = <<>>
  /\ giAnalysisData = <<>>
  /\ agriTechMetrics = <<>>
  /\ startupReq = <<>>
  /\ updateReq = <<>>
  /\ calcReq = <<>>
  /\ scoresReq = <<>>

\* The matchmaking service with no job and no request.
QueueIdle ==
  /\ jobs = <<>>
  /\ jobReq = <<>>
  /\ cron = <<>>

\* The discovery endpoints, with nothing on record.
DiscoveryIdle ==
  /\ discoveries = <<>>
  /\ discoverReq = <<>>
  /\ verifyReq = <<>>

(***************************************************************************)
(* SpecCalc: the score functions applied to inputs drawn from bounded      *)
(* sets.                                                                   *)
(***************************************************************************)
Rep(x, n) == [i \in 1..n |-> x]

\* The hour of the calls, a date inside and one outside the 30-day window.
CalcNow == 2000

RecentDate == CalcNow - 10

OldDate == CalcNow - 1000

MaxCommits == 60

MaxPulls == 2

MaxIssues == 2

MaxTweets == 2

CommitCounts == {0, 1, 30, MaxCommits}

Repos ==
  [stargazers_count  : {0, 150},
   forks_count       : {0, 15},
   watchers_count    : {0},
   open_issues_count : {5, 50},
   size              : {2000},
   language          : {None, Some("TypeScript")}]

GithubInputs ==
  { [commits  |-> Rep(RecentDate, nr) \o Rep(OldDate, no),
     repoData |-> repo,
     prs      |-> Rep(TRUE, pm) \o Rep(FALSE, pt - pm),
     issues   |-> Rep("closed", ic) \o Rep("open", it - ic)] :
      nr \in CommitCounts, no \in 0..1, repo \in Repos,
      <<pm, pt>> \in {x \in (0..MaxPulls) \X (0..MaxPulls) : x[1] <= x[2]},
      <<ic, it>> \in {x \in (0..MaxIssues) \X (0..MaxIssues) : x[1] <= x[2]} }

TweetKinds ==
  { [like_count |-> 3, retweet_count |-> 1, reply_count |-> 0, created_at |-> RecentDate],
    [like_count |-> 900, retweet_count |-> 250, reply_count |-> 40, created_at |-> RecentDate],
    [like_count |-> 20, retweet_count |-> 4, reply_count |-> 1, created_at |-> OldDate] }

TweetLists == UNION {[1..n -> TweetKinds] : n \in 0..MaxTweets}

TwitterInputs ==
  [user   : [verified : BOOLEAN,
             public_metrics : [followers_count : {0, 1500, 49500, 80000},
                               tweet_count : {5}]],
   tweets : TweetLists]

\* extractMarketPotential: Math.floor(Math.random() * 40) + 60
MarketPotentials == 60..99

OverallTech == {0, 30, 78, 100}

OverallSocial == {0, 3, 65, 100}

ScoreRecord(x) == [score |-> x]

GIRecord(x) == [marketPotential |-> x]

Stages == {"idea", "prototype", "mvp", "early", "growth"}

\* The investor of the worked example, one without preferences, and one
\* whose thresholds nobody below meets.
ExampleInvestor ==
  [preferredIndustries |-> {"Climate Tech"}, preferredStages |-> {"early"},
   techScoreMin |-> 70, socialScoreMin |-> 60, teamSizeMin |-> 5,
   foundedYearMin |-> 2019,
   investmentRangeMin |-> 500000, investmentRangeMax |-> 10000000]

OpenInvestor ==
  [preferredIndustries |-> {}, preferredStages |-> {},
   techScoreMin |-> 0, socialScoreMin |-> 0, teamSizeMin |-> 1,
   foundedYearMin |-> 2000,
   investmentRangeMin |-> 0, investmentRangeMax |-> 5000000]

CalcInvestors == {ExampleInvestor, OpenInvestor}

MatchTechScores == {0, 1, 50, 78, 100}

MatchSocialScores == {0, 65, 82, 100}

CalcStartups ==
  [landType        : {"Climate Tech", "agricultural"},
   stage           : {"early", "idea"},
   techScore       : MatchTechScores,
   socialScore     : MatchSocialScores,
   teamSize        : {1, 8},
   fundingRequired : {None, Some(2000000), Some(20000000)}]

\* The same startup as the matchmaking service reads it from /api/projects.
AsProject(startup) ==
  [industry    |-> startup.landType,
   stage       |-> startup.stage,
   techScore   |-> startup.techScore,
   socialScore |-> startup.socialScore,
   teamSize    |-> startup.teamSize,
   fundingGoal |-> startup.fundingRequired]

CalcInit ==
  /\ call = [fn |-> "none"]
  /\ matches = <<>>
  /\ nextMatchId = 1
  /\ creq = <<>>
  /\ greq = <<>>
  /\ mreq = <<>>
  /\ startups = <<>>
  /\ ScoreIdle
  /\ QueueIdle
  /\ clock = CalcNow
  /\ DiscoveryIdle

CallTechScore ==
  /\ call.fn = "none"
  /\ \E github \in GithubInputs :
       call' = [fn |-> "calculateTechScore", github |-> github,
                ret |-> TechScoreOf(github, CalcNow)]
  /\ UNCHANGED <<matchVars, startups, scoreVars, queueVars, discVars>>

CallSocialScore ==
  /\ call.fn = "none"
  /\ \E twitter \in TwitterInputs :
       call' = [fn |-> "calculateSocialScore", twitter |-> twitter,
                ret |-> SocialScoreOf(twitter, CalcNow)]
  /\ UNCHANGED <<matchVars, startups, scoreVars, queueVars, discVars>>

CallOverallScore ==
  /\ call.fn = "none"
  /\ \E techScore \in {None} \cup {Some(ScoreRecord(x)) : x \in OverallTech},
        socialScore \in {None} \cup {Some(ScoreRecord(x)) : x \in OverallSocial},
        giScore \in {None} \cup {Some(GIRecord(x)) : x \in MarketPotentials} :
       call' = [fn |-> "calculateOverallScore", techScore |-> techScore,
                socialScore |-> socialScore, giScore |-> giScore,
                ret |-> calculateOverallScore(techScore, socialScore, giScore)]
  /\ UNCHANGED <<matchVars, startups, scoreVars, queueVars, discVars>>

CallMatchScore ==
  /\ call.fn = "none"
  /\ \E investor \in CalcInvestors, startup \in CalcStartups :
       call' = [fn |-> "calculateMatchScore", investor |-> investor,
                startup |-> startup,
                ret |-> calculateMatchScore(investor, startup)]
  /\ UNCHANGED <<matchVars, startups, scoreVars, queueVars, discVars>>

CallBasicCompatibility ==
  /\ call.fn = "none"
  /\ \E investor \in CalcInvestors, startup \in CalcStartups :
       call' = [fn |-> "calculateBasicCompatibility", investor |-> investor,
                startup |-> startup,
                ret |-> calculateBasicCompatibility(investor, AsProject(startup))]
  /\ UNCHANGED <<matchVars, startups, scoreVars, queueVars, discVars>>


\* Pull request and issue lists long enough for thirds and twelfths.
PullTotals == {0, 1, 3, 6}

IssueTotals == {0, 1, 12}

CallProjectMaintenance ==
  /\ call.fn = "none"
  /\ \E pt \in PullTotals, it \in IssueTotals :
       \E pm \in 0..pt, ic \in 0..it :
         LET prs    == Rep(TRUE, pm) \o Rep(FALSE, pt - pm)
             issues == Rep("closed", ic) \o Rep("open", it - ic)
         IN  call' = [fn |-> "calculateProjectMaintenance", prs |-> prs,
                      issues |-> issues,
                      ret |-> calculateProjectMaintenance(prs, issues)]
  /\ UNCHANGED <<matchVars, startups, scoreVars, queueVars, discVars>>

\* A date that the 30-day window holds at CalcNow and no longer a day later.
EdgeDate == CalcNow + 1 - (WindowDays * HoursPerDay)

LaterNow == CalcNow + HoursPerDay + 1

EdgeRepo ==
  [stargazers_count |-> 150, forks_count |-> 15, watchers_count |-> 0,
   open_issues_count |-> 5, size |-> 2000, language |-> Some("TypeScript")]

EdgeGithubs ==
  { [commits |-> Rep(date, 30), repoData |-> EdgeRepo, prs |-> <<>>,
     issues |-> <<>>] : date \in {RecentDate, EdgeDate} }

EdgeTwitters ==
  { [user   |-> [verified |-> FALSE,
                 public_metrics |-> [followers_count |-> 1500,
                                     tweet_count |-> 5]],
     tweets |-> Rep([like_count |-> 3, retweet_count |-> 1, reply_count |-> 0,
                     created_at |-> date], 3)] : date \in {RecentDate, EdgeDate} }

\* The scores of a record without the time it was written.
SubScores(row) == [f \in DOMAIN row \ {"lastUpdated"} |-> row[f]]

\* One run of calculateTechScore, calculateSocialScore and
\* calculateOverallScore on fetched data at the hour now.
ScoresOf(techScore, socialScore) ==
  [techScore    |-> SubScores(techScore),
   socialScore  |-> SubScores(socialScore),
   overallScore |-> calculateOverallScore(Some(techScore), Some(socialScore),
                                          None)]

ScoringRun(github, twitter, now) ==
  ScoresOf(TechScoreOf(github, now), SocialScoreOf(twitter, now))

\* Two runs on the same fetched data, the second at the same hour or a day
\* later.
CallScoringTwice ==
  /\ call.fn = "none"
  /\ \E github \in EdgeGithubs, twitter \in EdgeTwitters,
        again \in {CalcNow, LaterNow} :
       call' = [fn |-> "scoringTwice", github |-> github, twitter |-> twitter,
                at |-> <<CalcNow, again>>,
                ret |-> [run \in 1..2 |->
                           ScoringRun(github, twitter,
                                      IF run = 1 THEN CalcNow ELSE again)]]
  /\ UNCHANGED <<matchVars, startups, scoreVars, queueVars, discVars>>

CalcNext ==
  \/ CallTechScore
  \/ CallSocialScore
  \/ CallOverallScore
  \/ CallMatchScore
  \/ CallBasicCompatibility
  \/ CallProjectMaintenance
  \/ CallScoringTwice

SpecCalc == CalcInit /\ [][CalcNext]_vars

(***************************************************************************)
(* Claims checked under SpecCalc.                                          *)
(***************************************************************************)
\* num/den rounded to the nearest integer, a tie going up, in exact arithmetic.
RoundHalfUp(num, den) == (2 * num + den) \div (2 * den)

ScoreOf(o) == IF o = None THEN 0 ELSE Val(o).score

Ind(b) == IF b THEN 1 ELSE 0

\* The six-term match formula in exact arithmetic, in hundredths.
ExactMatchHundredths(investor, startup) ==
  100 * (30 * Ind(startup.landType \in investor.preferredIndustries)
         + 25 * Ind(startup.stage \in investor.preferredStages)
         + 5 * Ind(startup.teamSize >= investor.teamSizeMin)
         + 5 * Ind(/\ startup.fundingRequired # None
                   /\ investor.investmentRangeMin <= Val(startup.fundingRequired)
                   /\ Val(startup.fundingRequired) <= investor.investmentRangeMax))
  + 20 * startup.techScore + 15 * startup.socialScore

IsMatchCall == call.fn \in {"calculateMatchScore", "calculateBasicCompatibility"}

ExampleStartup ==
  [landType |-> "Climate Tech", stage |-> "early", techScore |-> 78,
   socialScore |-> 65, teamSize |-> 8, fundingRequired |-> Some(2000000)]

ExampleGithub ==
  [commits  |-> Rep(RecentDate, 30),
   repoData |-> [stargazers_count |-> 150, forks_count |-> 15,
                 watchers_count |-> 0, open_issues_count |-> 5,
                 size |-> 2000, language |-> Some("TypeScript")],
   prs      |-> <<>>,
   issues   |-> <<>>]

\* C3: every technical, social and overall score the score functions compute,
\* and every match score of a startup with scores in 0..100, is an integer in
\* 0..100.
C3_ScoresInRange ==
  /\ call.fn \in {"calculateTechScore", "calculateSocialScore"}
       => call.ret.score \in 0..100
  /\ call.fn = "calculateOverallScore" => call.ret \in 0..100
  /\ IsMatchCall => call.ret \in 0..100

\* C3 witness: an overall score and a match score at the upper end of the range.
C3_Witness ==
  \/ call.fn = "calculateOverallScore" /\ call.ret = 100
  \/ call.fn = "calculateMatchScore" /\ call.ret = 100

\* C4 (as claimed): calculateMatchScore and calculateBasicCompatibility both
\* return the six-term sum rounded half up once, in exact arithmetic.
C4_MatchScoreIsExactFormula ==
  IsMatchCall =>
    call.ret = RoundHalfUp(ExactMatchHundredths(call.investor, call.startup), 100)

\* C5 (as claimed): calculateOverallScore returns 0.40*tech + 0.30*social +
\* 0.30*gi rounded half up, an absent input counting 0.
C5_OverallIsExactFormula ==
  call.fn = "calculateOverallScore" =>
    call.ret = RoundHalfUp(40 * ScoreOf(call.techScore)
                           + 30 * ScoreOf(call.socialScore)
                           + 30 * (IF call.giScore = None THEN 0
                                   ELSE Val(call.giScore).marketPotential), 100)

\* C6: the technical score is 0.30*codeActivity + 0.25*communityEngagement +
\* 0.25*projectMaintenance + 0.20*codeQuality rounded half up, each sub-score
\* being an integer in 0..100.
C6_TechScoreIsWeightedSum ==
  call.fn = "calculateTechScore" =>
    /\ call.ret.codeActivity \in 0..100
    /\ call.ret.communityEngagement \in 0..100
    /\ call.ret.projectMaintenance \in 0..100
    /\ call.ret.codeQuality \in 0..100
    /\ call.ret.score =
         RoundHalfUp(30 * call.ret.codeActivity + 25 * call.ret.communityEngagement
                     + 25 * call.ret.projectMaintenance + 20 * call.ret.codeQuality,
                     100)

\* C6 witness: a technical score whose weighted sum lies exactly on a half.
C6_Witness ==
  /\ call.fn = "calculateTechScore"
  /\ (30 * call.ret.codeActivity + 25 * call.ret.communityEngagement
      + 25 * call.ret.projectMaintenance + 20 * call.ret.codeQuality) % 100 = 50
  /\ call.ret.communityEngagement > 0
  /\ call.ret.projectMaintenance > 0

\* C8 (amended): the match score of the worked example is 90.
C8_ExampleMatchScoreIs90 ==
  (IsMatchCall /\ call.investor = ExampleInvestor /\ call.startup = ExampleStartup)
    => call.ret = 90

\* C8 (as claimed): the match score of the worked example is 91.
C8_ExampleMatchScoreIs91 ==
  (IsMatchCall /\ call.investor = ExampleInvestor /\ call.startup = ExampleStartup)
    => call.ret = 91

\* C8 witness: the worked example scored by the backend route.
C8_Witness ==
  /\ call.fn = "calculateMatchScore"
  /\ call.investor = ExampleInvestor
  /\ call.startup = ExampleStartup
  /\ call.ret = 90

\* C9: the technical score of the worked example repository is 30.
C9_ExampleTechScoreIs30 ==
  (call.fn = "calculateTechScore" /\ call.github = ExampleGithub)
    => call.ret.score = 30

\* C9 witness: the worked example repository scored.
C9_Witness ==
  /\ call.fn = "calculateTechScore"
  /\ call.github = ExampleGithub
  /\ call.ret.score = 30

\* C10 (amended): the sub-scores of the worked example repository are
\* codeActivity 25, communityEngagement 8, projectMaintenance 0, codeQuality 100.
C10_ExampleSubScores ==
  (call.fn = "calculateTechScore" /\ call.github = ExampleGithub) =>
    /\ call.ret.codeActivity = 25
    /\ call.ret.communityEngagement = 8
    /\ call.ret.projectMaintenance = 0
    /\ call.ret.codeQuality = 100

\* C10 (as claimed): the same with communityEngagement 9.
C10_ExampleSubScoresAsClaimed ==
  (call.fn = "calculateTechScore" /\ call.github = ExampleGithub) =>
    /\ call.ret.codeActivity = 25
    /\ call.ret.communityEngagement = 9
    /\ call.ret.projectMaintenance = 0
    /\ call.ret.codeQuality = 100

\* C10 witness: the worked example repository with its four sub-scores.
C10_Witness ==
  /\ call.fn = "calculateTechScore"
  /\ call.github = ExampleGithub
  /\ call.ret.communityEngagement = 8
  /\ call.ret.codeQuality = 100


\* C16 (as claimed): two runs of the score computation on the same fetched
\* data give the same sub-scores and the same scores, whatever the hour of
\* each run.
C16_SameDataSameScores ==
  call.fn = "scoringTwice" => call.ret[1] = call.ret[2]

\* C17 (as claimed): the reach sub-score of calculateSocialScore is
\* min(min(round(followers / 1000), 50) + (20 if the account is verified,
\* else 0), 100).
C17_ReachAddsVerifiedBonus ==
  call.fn = "calculateSocialScore" =>
    call.ret.reach
      = MathMin(MathMin(RoundHalfUp(
                          call.twitter.user.public_metrics.followers_count,
                          1000), 50)
                + (IF call.twitter.user.verified THEN 20 ELSE 0), 100)

\* C18 (as claimed): calculateProjectMaintenance returns
\* 50 * merged/total PRs + 50 * closed/total issues rounded half up, a term
\* with denominator 0 counting 0.
C18_MaintenanceIsExactFormula ==
  call.fn = "calculateProjectMaintenance" =>
    LET merged == Cardinality({i \in DOMAIN call.prs : call.prs[i]})
        closed == Cardinality({i \in DOMAIN call.issues :
                                 call.issues[i] = "closed"})
        pulls  == Len(call.prs)
        issues == Len(call.issues)
    IN  call.ret =
          IF pulls = 0 /\ issues = 0 THEN 0
          ELSE IF pulls = 0 THEN RoundHalfUp(50 * closed, issues)
          ELSE IF issues = 0 THEN RoundHalfUp(50 * merged, pulls)
          ELSE RoundHalfUp(50 * ((merged * issues) + (closed * pulls)),
                           pulls * issues)



\* C22: for an investor whose preferredIndustries and preferredStages are
\* both empty, calculateMatchScore gives no startup more than 70.
C22_NoPreferencesAtMost70 ==
  ( /\ call.fn = "calculateMatchScore"
    /\ call.investor.preferredIndustries = {}
    /\ call.investor.preferredStages = {} )
  => call.ret <= 70

\* The best startup for an investor without preferences: both scores 100,
\* the team large enough and the funding ask in range.
C22_Witness ==
  /\ call.fn = "calculateMatchScore"
  /\ call.investor.preferredIndustries = {}
  /\ call.investor.preferredStages = {}
  /\ call.startup.techScore = 100
  /\ call.startup.socialScore = 100
  /\ call.startup.teamSize >= call.investor.teamSizeMin
  /\ FundingInRange(call.investor, call.startup)
  /\ call.ret = 45

(***************************************************************************)
(* SpecMono: each composite score computed twice, on inputs that differ in *)
(* one term only, the second time with that term raised.                   *)
(***************************************************************************)
TechLevels == {0, 1, 50, 100}

ScoreLevels == {0, 1, 50, 99, 100}

\* The vectors over levels that differ from lower in place k only, by more.
RaisedAt(lower, k, levels) ==
  {[lower EXCEPT ![k] = hi] : hi \in {x \in levels : x > lower[k]}}

MonoStartups ==
  [landType        : {"Climate Tech", "agricultural"},
   stage           : {"early", "idea"},
   techScore       : {0, 50, 100},
   socialScore     : {0, 65, 100},
   teamSize        : {1, 8},
   fundingRequired : {None, Some(2000000)}]

\* The six terms of the match score of a startup for an investor.
MatchTerms(investor, startup) ==
  <<Ind(startup.landType \in investor.preferredIndustries),
    Ind(startup.stage \in investor.preferredStages),
    startup.techScore,
    startup.socialScore,
    Ind(startup.teamSize >= investor.teamSizeMin),
    Ind(FundingInRange(investor, startup))>>

\* raised has one term above that of lower and the other five equal.
OneTermRaised(investor, lower, raised) ==
  \E k \in 1..6 :
    /\ MatchTerms(investor, raised)[k] > MatchTerms(investor, lower)[k]
    /\ \A j \in (1..6) \ {k} :
         MatchTerms(investor, raised)[j] = MatchTerms(investor, lower)[j]

CallTechPair ==
  /\ call.fn = "none"
  /\ \E lower \in [1..4 -> TechLevels], k \in 1..4 :
       \E raised \in RaisedAt(lower, k, TechLevels) :
         call' = [fn |-> "techPair", lower |-> lower, raised |-> raised,
                  ret |-> [run \in 1..2 |->
                            TechWeighted(
                              (IF run = 1 THEN lower ELSE raised)[1],
                              (IF run = 1 THEN lower ELSE raised)[2],
                              (IF run = 1 THEN lower ELSE raised)[3],
                              (IF run = 1 THEN lower ELSE raised)[4])]]
  /\ UNCHANGED <<matchVars, startups, scoreVars, queueVars, discVars>>

CallSocialPair ==
  /\ call.fn = "none"
  /\ \E lower \in [1..3 -> ScoreLevels], k \in 1..3 :
       \E raised \in RaisedAt(lower, k, ScoreLevels) :
         call' = [fn |-> "socialPair", lower |-> lower, raised |-> raised,
                  ret |-> [run \in 1..2 |->
                            SocialWeighted(
                              (IF run = 1 THEN lower ELSE raised)[1],
                              (IF run = 1 THEN lower ELSE raised)[2],
                              (IF run = 1 THEN lower ELSE raised)[3])]]
  /\ UNCHANGED <<matchVars, startups, scoreVars, queueVars, discVars>>

CallOverallPair ==
  /\ call.fn = "none"
  /\ \E lower \in [1..3 -> ScoreLevels], k \in 1..3 :
       \E raised \in RaisedAt(lower, k, ScoreLevels) :
         call' = [fn |-> "overallPair", lower |-> lower, raised |-> raised,
                  ret |-> [run \in 1..2 |->
                            calculateOverallScore(
                              Some(ScoreRecord((IF run = 1 THEN lower ELSE raised)[1])),
                              Some(ScoreRecord((IF run = 1 THEN lower ELSE raised)[2])),
                              Some(GIRecord((IF run = 1 THEN lower ELSE raised)[3])))]]
  /\ UNCHANGED <<matchVars, startups, scoreVars, queueVars, discVars>>

CallMatchPair ==
  /\ call.fn = "none"
  /\ \E investor \in CalcInvestors, lower \in MonoStartups :
       \E raised \in {s \in MonoStartups : OneTermRaised(investor, lower, s)} :
         call' = [fn |-> "matchPair", investor |-> investor, lower |-> lower,
                  raised |-> raised,
                  ret |-> [run \in 1..2 |->
                            calculateMatchScore(investor,
                              IF run = 1 THEN lower ELSE raised)]]
  /\ UNCHANGED <<matchVars, startups, scoreVars, queueVars, discVars>>

MonoNext ==
  \/ CallTechPair
  \/ CallSocialPair
  \/ CallOverallPair
  \/ CallMatchPair

SpecMono == CalcInit /\ [][MonoNext]_vars

\* C21: with the other terms fixed, raising one term of the technical,
\* social, overall or match score never lowers the rounded score.
C21_CompositeScoresAreMonotone ==
  call.fn \in {"techPair", "socialPair", "overallPair", "matchPair"} =>
    call.ret[1] <= call.ret[2]

\* A startup raised to a preferred stage, all else equal, scores higher.
C21_Witness ==
  /\ call.fn = "matchPair"
  /\ call.lower.stage # call.raised.stage
  /\ call.ret[2] > call.ret[1]

(***************************************************************************)
(* backend/src/routes/matchmaking.ts: the Match endpoints.  A handler is  *)
(* one action per database operation it awaits; what it runs between two  *)
(* awaits belongs to the action of the operation that follows.             *)
(***************************************************************************)
MatchStatuses == {"pending", "accepted", "rejected", "contacted"}

DefaultLimit == 10

\* The investors on record.  No route of the backend writes this table.
InvestorTable ==
  [inv1 |-> [preferredIndustries |-> {"agricultural", "mixed"},
             preferredStages |-> {"early", "growth"},
             techScoreMin |-> 70, socialScoreMin |-> 60, teamSizeMin |-> 5,
             foundedYearMin |-> 2019, portfolio |-> {},
             investmentRangeMin |-> 500000, investmentRangeMax |-> 10000000],
   inv2 |-> [preferredIndustries |-> {"livestock"},
             preferredStages |-> {"idea", "early"},
             techScoreMin |-> 0, socialScoreMin |-> 0, teamSizeMin |-> 1,
             foundedYearMin |-> 2030, portfolio |-> {"st1", "st4"},
             investmentRangeMin |-> 0, investmentRangeMax |-> 5000000]]

\* The startups on record when the matchmaking requests arrive.
StartupTable ==
  [st1 |-> [landType |-> "agricultural", stage |-> "early", techScore |-> 78,
            socialScore |-> 65, teamSize |-> 8,
            fundingRequired |-> Some(2000000), createdYear |-> 2025],
   st2 |-> [landType |-> "agricultural", stage |-> "early", techScore |-> 80,
            socialScore |-> 60, teamSize |-> 5,
            fundingRequired |-> None, createdYear |-> 2025],
   st3 |-> [landType |-> "livestock", stage |-> "idea", techScore |-> 10,
            socialScore |-> 0, teamSize |-> 1,
            fundingRequired |-> None, createdYear |-> 2025],
   st4 |-> [landType |-> "livestock", stage |-> "early", techScore |-> 40,
            socialScore |-> 30, teamSize |-> 2,
            fundingRequired |-> None, createdYear |-> 2025]]

\* An id that names no investor and no startup, and one that names no match.
GhostId == "ghost"

GhostMatchId == 0

\* createMatchSchema.parse: the validated data, or None for a ZodError.
createMatchSchema(body) ==
  IF /\ {"investorId", "startupId", "score", "reasons"} \subseteq DOMAIN body
     /\ body.score >= 0
     /\ body.score <= 100
     /\ (body.status = None \/ Val(body.status) \in MatchStatuses)
  THEN Some([investorId |-> body.investorId, startupId |-> body.startupId,
             score |-> body.score, reasons |-> body.reasons,
             status |-> IF body.status = None THEN "pending"
                        ELSE Val(body.status)])
  ELSE None

\* updateMatchSchema.parse.
updateMatchSchema(body) ==
  IF body.status \in MatchStatuses THEN Some(body) ELSE None

\* prisma.match.findUnique({where: {investorId_startupId}}): the ids found.
findUnique(ms, investorId, startupId) ==
  {id \in DOMAIN ms : /\ ms[id].investorId = investorId
                      /\ ms[id].startupId = startupId}

\* A Match table that takes a second record for a pair.
UniqueViolation_noCompoundKey(ms, investorId, startupId) == FALSE

\* The compound unique key investorId_startupId of Match: an insert of a
\* pair already on record is refused.
UniqueViolation(ms, investorId, startupId) ==
  findUnique(ms, investorId, startupId) # {}

\* The relations Match.investor and Match.startup: an insert that names no
\* investor or no startup on record is refused.
ForeignKeyViolation(ss, investorId, startupId) ==
  investorId \notin DOMAIN InvestorTable \/ startupId \notin DOMAIN ss

\* prisma.match.create: the table after the insert, or None when the
\* database refuses it (the call throws).
matchCreate(ms, id, data, ss) ==
  IF \/ UniqueViolation(ms, data.investorId, data.startupId)
     \/ ForeignKeyViolation(ss, data.investorId, data.startupId)
  THEN None
  ELSE Some([i \in DOMAIN ms \cup {id} |-> IF i = id THEN data ELSE ms[i]])

\* The threshold reasons given only above the minimum.
generateMatchReasons_aboveMinimum(investor, startup) ==
  (IF startup.landType \in investor.preferredIndustries
     THEN <<"industry">> ELSE <<>>)
  \o (IF startup.stage \in investor.preferredStages
        THEN <<"stage">> ELSE <<>>)
  \o (IF startup.techScore > investor.techScoreMin
        THEN <<"techScore">> ELSE <<>>)
  \o (IF startup.socialScore > investor.socialScoreMin
        THEN <<"socialScore">> ELSE <<>>)
  \o (IF startup.teamSize > investor.teamSizeMin
        THEN <<"teamSize">> ELSE <<>>)
  \o (IF startup.createdYear >= investor.foundedYearMin
        THEN <<"foundedYear">> ELSE <<>>)

generateMatchReasons(investor, startup) ==
  (IF startup.landType \in investor.preferredIndustries
     THEN <<"industry">> ELSE <<>>)
  \o (IF startup.stage \in investor.preferredStages
        THEN <<"stage">> ELSE <<>>)
  \o (IF startup.techScore >= investor.techScoreMin
        THEN <<"techScore">> ELSE <<>>)
  \o (IF startup.socialScore >= investor.socialScoreMin
        THEN <<"socialScore">> ELSE <<>>)
  \o (IF startup.teamSize >= investor.teamSizeMin
        THEN <<"teamSize">> ELSE <<>>)
  \o (IF startup.createdYear >= investor.foundedYearMin
        THEN <<"foundedYear">> ELSE <<>>)

\* The where clause without the condition on existing matches.
MatchingStartups_keepsMatched(ss, ms, investorId, investor) ==
  {s \in DOMAIN ss :
     /\ ss[s].landType \in investor.preferredIndustries
     /\ ss[s].stage \in investor.preferredStages
     /\ ss[s].techScore >= investor.techScoreMin
     /\ ss[s].socialScore >= investor.socialScoreMin
     /\ ss[s].teamSize >= investor.teamSizeMin
     /\ s \notin investor.portfolio}

\* The where clause without the portfolio condition.
MatchingStartups_keepsPortfolio(ss, ms, investorId, investor) ==
  {s \in DOMAIN ss :
     /\ ss[s].landType \in investor.preferredIndustries
     /\ ss[s].stage \in investor.preferredStages
     /\ ss[s].techScore >= investor.techScoreMin
     /\ ss[s].socialScore >= investor.socialScoreMin
     /\ ss[s].teamSize >= investor.teamSizeMin
     /\ \A id \in DOMAIN ms :
          ms[id].startupId = s => ms[id].investorId # investorId}

\* The where clause of findMany in POST /generate.
MatchingStartups(ss, ms, investorId, investor) ==
  {s \in DOMAIN ss :
     /\ ss[s].landType \in investor.preferredIndustries
     /\ ss[s].stage \in investor.preferredStages
     /\ ss[s].techScore >= investor.techScoreMin
     /\ ss[s].socialScore >= investor.socialScoreMin
     /\ ss[s].teamSize >= investor.teamSizeMin
     /\ s \notin investor.portfolio
     /\ \A id \in DOMAIN ms :
          ms[id].startupId = s => ms[id].investorId # investorId}

\* take: the rows returned, in an order the query does not fix.
Take(S, n) ==
  LET k == IF Cardinality(S) < n THEN Cardinality(S) ELSE n
  IN  {q \in [1..k -> S] : \A i, j \in 1..k : i # j => q[i] # q[j]}

\* The match score of every investor and startup on record, computed once
\* by calculateMatchScore; POST /generate runs it by looking its result up.
MatchScoreRuns ==
  {[investor |-> InvestorTable[i], startup |-> [id |-> s] @@ StartupTable[s],
    score |-> calculateMatchScore(InvestorTable[i], [id |-> s] @@ StartupTable[s])] :
     i \in DOMAIN InvestorTable, s \in DOMAIN StartupTable}

RunMatchScore(investor, startup) ==
  (CHOOSE run \in MatchScoreRuns :
     run.investor = investor /\ run.startup = startup).score

NumCreate == 2

NumGenerate == 1

NumMutate == 1

CreateReqs == 1..NumCreate

GenerateReqs == 1..NumGenerate

MutateReqs == 1..NumMutate

\* Requests are numbered in the order they arrive.
Arrives(reqs, r) == IF r = 1 THEN TRUE ELSE reqs[r - 1].pc # "idle"

CreateBodies ==
  { [investorId |-> p[1], startupId |-> p[2], score |-> d[1],
     reasons |-> d[2], status |-> d[3]] :
      p \in {<<"inv1", "st1">>, <<GhostId, "st1">>, <<"inv1", GhostId>>},
      d \in {<<55, <<>>, None>>, <<70, <<"manual">>, Some("accepted")>>} }
  \cup { [investorId |-> "inv1", startupId |-> "st1", score |-> 101,
          reasons |-> <<>>, status |-> None] }

GenerateBodies ==
  [investorId : {Some("inv1"), Some("inv2")}, limit : {None, Some(1)}]
  \cup [investorId : {None, Some(GhostId)}, limit : {None}]

UpdateBodies ==
  { [status |-> "accepted", reasons |-> None],
    [status |-> "rejected", reasons |-> Some(<<"declined">>)],
    [status |-> "archived", reasons |-> None] }

Idle == [pc |-> "idle"]

Init ==
  /\ call = [fn |-> "none"]
  /\ matches = <<>>
  /\ nextMatchId = 1
  /\ creq = [r \in CreateReqs |-> Idle]
  /\ greq = [g \in GenerateReqs |-> Idle]
  /\ mreq = [m \in MutateReqs |-> Idle]
  /\ startups = StartupTable
  /\ ScoreIdle
  /\ QueueIdle
  /\ clock = CalcNow
  /\ DiscoveryIdle

\* POST /api/matchmaking up to the answer of findUnique.
CreateCheck(r) ==
  /\ creq[r].pc = "idle"
  /\ Arrives(creq, r)
  /\ \E body \in CreateBodies :
       LET validatedData == createMatchSchema(body)
       IN  creq' = [creq EXCEPT ![r] =
             IF validatedData = None
             THEN [pc |-> "done", body |-> body, resp |-> 400]
             ELSE IF findUnique(matches, body.investorId, body.startupId) # {}
             THEN [pc |-> "done", body |-> body, resp |-> 409]
             ELSE [pc |-> "create", body |-> body, resp |-> 0]]
  /\ UNCHANGED <<call, discVars, matches, nextMatchId, greq, mreq, startups, scoreVars, queueVars>>

\* POST /api/matchmaking from prisma.match.create to the response.
CreateInsert(r) ==
  /\ creq[r].pc = "create"
  /\ LET created == matchCreate(matches, nextMatchId,
                                Val(createMatchSchema(creq[r].body)), startups)
     IN  IF created = None
         THEN /\ creq' = [creq EXCEPT ![r].pc = "done", ![r].resp = 500]
              /\ UNCHANGED <<matches, nextMatchId>>
         ELSE /\ matches' = Val(created)
              /\ nextMatchId' = nextMatchId + 1
              /\ creq' = [creq EXCEPT ![r].pc = "done", ![r].resp = 201]
  /\ UNCHANGED <<call, discVars, greq, mreq, startups, scoreVars, queueVars>>

\* PUT /api/matchmaking/:id.
UpdateMatch(m) ==
  /\ mreq[m].pc = "idle"
  /\ Arrives(mreq, m)
  /\ \E id \in DOMAIN matches \cup {GhostMatchId}, body \in UpdateBodies :
       LET done == [pc |-> "done", op |-> "PUT", id |-> id, resp |-> 200]
       IN  IF updateMatchSchema(body) = None
           THEN /\ mreq' = [mreq EXCEPT ![m] = [done EXCEPT !.resp = 400]]
                /\ UNCHANGED matches
           ELSE IF id \notin DOMAIN matches
           THEN /\ mreq' = [mreq EXCEPT ![m] = [done EXCEPT !.resp = 500]]
                /\ UNCHANGED matches
           ELSE /\ matches' = [matches EXCEPT ![id] =
                     [@ EXCEPT !.status = body.status,
                               !.reasons = IF body.reasons = None THEN @
                                           ELSE Val(body.reasons)]]
                /\ mreq' = [mreq EXCEPT ![m] = done]
  /\ UNCHANGED <<call, discVars, nextMatchId, creq, greq, startups, scoreVars, queueVars>>

\* DELETE /api/matchmaking/:id.
DeleteMatch(m) ==
  /\ mreq[m].pc = "idle"
  /\ Arrives(mreq, m)
  /\ \E id \in DOMAIN matches \cup {GhostMatchId} :
       LET done == [pc |-> "done", op |-> "DELETE", id |-> id, resp |-> 200]
       IN  IF id \notin DOMAIN matches
           THEN /\ mreq' = [mreq EXCEPT ![m] = [done EXCEPT !.resp = 500]]
                /\ UNCHANGED matches
           ELSE /\ matches' = [i \in DOMAIN matches \ {id} |-> matches[i]]
                /\ mreq' = [mreq EXCEPT ![m] = done]
  /\ UNCHANGED <<call, discVars, nextMatchId, creq, greq, startups, scoreVars, queueVars>>

\* POST /api/matchmaking/generate up to the answer of investor.findUnique.
GenLookup(g) ==
  /\ greq[g].pc = "idle"
  /\ Arrives(greq, g)
  /\ \E body \in GenerateBodies :
       LET limit == IF body.limit = None THEN DefaultLimit ELSE Val(body.limit)
           blank == [pc |-> "done", investorId |-> body.investorId,
                     limit |-> limit, todo |-> <<>>, created |-> <<>>,
                     resp |-> 0]
       IN  greq' = [greq EXCEPT ![g] =
             IF body.investorId = None
             THEN [blank EXCEPT !.resp = 400]
             ELSE IF Val(body.investorId) \notin DOMAIN InvestorTable
             THEN [blank EXCEPT !.resp = 404]
             ELSE [blank EXCEPT !.pc = "find"]]
  /\ UNCHANGED <<call, discVars, matches, nextMatchId, creq, mreq, startups, scoreVars, queueVars>>

\* POST /generate: agriTechStartup.findMany, and the response when it
\* returns no row.
GenFind(g) ==
  /\ greq[g].pc = "find"
  /\ LET investorId == Val(greq[g].investorId)
         rows == MatchingStartups(startups, matches, investorId,
                                  InvestorTable[investorId])
     IN  \E q \in Take(rows, greq[g].limit) :
           greq' = [greq EXCEPT ![g] =
             IF q = <<>>
             THEN [@ EXCEPT !.pc = "done", !.resp = 200]
             ELSE [@ EXCEPT !.pc = "create",
                            !.todo = [i \in DOMAIN q |->
                                        [id |-> q[i]] @@ startups[q[i]]]]]
  /\ UNCHANGED <<call, discVars, matches, nextMatchId, creq, mreq, startups, scoreVars, queueVars>>

\* POST /generate: one turn of the loop, and the response after the last.
GenCreate(g) ==
  /\ greq[g].pc = "create"
  /\ LET investorId == Val(greq[g].investorId)
         investor == InvestorTable[investorId]
         startup == Head(greq[g].todo)
         data == [investorId |-> investorId, startupId |-> startup.id,
                  score |-> RunMatchScore(investor, startup),
                  reasons |-> generateMatchReasons(investor, startup),
                  status |-> "pending"]
         created == matchCreate(matches, nextMatchId, data, startups)
     IN  IF created = None
         THEN /\ greq' = [greq EXCEPT ![g].pc = "done", ![g].resp = 500]
              /\ UNCHANGED <<matches, nextMatchId>>
         ELSE /\ matches' = Val(created)
              /\ nextMatchId' = nextMatchId + 1
              /\ greq' = [greq EXCEPT ![g] =
                   [@ EXCEPT !.todo = Tail(@),
                             !.created = Append(@, nextMatchId),
                             !.pc = IF Tail(greq[g].todo) = <<>>
                                    THEN "done" ELSE "create",
                             !.resp = IF Tail(greq[g].todo) = <<>>
                                      THEN 200 ELSE 0]]
  /\ UNCHANGED <<call, discVars, creq, mreq, startups, scoreVars, queueVars>>

Next ==
  \/ \E r \in CreateReqs : CreateCheck(r)
  \/ \E r \in CreateReqs : CreateInsert(r)
  \/ \E m \in MutateReqs : UpdateMatch(m)
  \/ \E m \in MutateReqs : DeleteMatch(m)
  \/ \E g \in GenerateReqs : GenLookup(g)
  \/ \E g \in GenerateReqs : GenFind(g)
  \/ \E g \in GenerateReqs : GenCreate(g)

Spec == Init /\ [][Next]_vars

(***************************************************************************)
(* Claims checked under Spec.                                              *)
(***************************************************************************)
SamePair(a, b) == a.investorId = b.investorId /\ a.startupId = b.startupId

\* C1: in every reachable state, whatever the interleaving of create and
\* generate requests, no two Match records have the same investor and
\* startup.
C1_OneMatchPerPair ==
  \A a, b \in DOMAIN matches :
    SamePair(matches[a], matches[b]) => a = b

\* Two creates of one pair both passed the existence check, and a create
\* and a generation pass raced for one pair: in each race one insert was
\* refused.
C1_Witness ==
  /\ \E r1, r2 \in CreateReqs :
       /\ creq[r1].pc = "done" /\ creq[r1].resp = 201
       /\ creq[r2].pc = "done" /\ creq[r2].resp = 500
       /\ SamePair(creq[r1].body, creq[r2].body)
  /\ \E g \in GenerateReqs : greq[g].pc = "done" /\ greq[g].resp = 500

\* C2: a create request that ends while its pair has a Match ends with 409
\* and leaves the Match table as it was, in every interleaving.
C2_DuplicateCreateGets409 ==
  [][\A r \in CreateReqs :
       ( /\ creq[r].pc # "done"
         /\ creq'[r].pc = "done"
         /\ createMatchSchema(creq'[r].body) # None
         /\ findUnique(matches, creq'[r].body.investorId,
                       creq'[r].body.startupId) # {} )
       => (creq'[r].resp = 409 /\ matches' = matches)]_vars


\* The step of GenCreate(g) that inserts a Match.
GenCreated(g) ==
  /\ greq[g].pc = "create"
  /\ greq'[g] # greq[g]
  /\ nextMatchId' = nextMatchId + 1

\* One reason for each satisfied condition of the weight table, in its order.
WeightTableReasons(investor, startup) ==
  (IF startup.landType \in investor.preferredIndustries
     THEN <<"industry">> ELSE <<>>)
  \o (IF startup.stage \in investor.preferredStages
        THEN <<"stage">> ELSE <<>>)
  \o (IF startup.techScore >= investor.techScoreMin
        THEN <<"techScore">> ELSE <<>>)
  \o (IF startup.socialScore >= investor.socialScoreMin
        THEN <<"socialScore">> ELSE <<>>)
  \o (IF startup.teamSize >= investor.teamSizeMin
        THEN <<"teamSize">> ELSE <<>>)
  \o (IF FundingInRange(investor, startup) THEN <<"funding">> ELSE <<>>)

\* C11 (as claimed): the reasons of every Match a generation pass creates are
\* one per satisfied condition of the weight table, in its order: category,
\* stage, technical score, social score, team size, funding within range.
C11_ReasonsFollowWeightTable ==
  [][\A g \in GenerateReqs :
       GenCreated(g) =>
         matches'[nextMatchId].reasons
           = WeightTableReasons(InvestorTable[Val(greq[g].investorId)],
                                Head(greq[g].todo))]_vars


\* The step of GenFind(g): findMany returns.
GenFound(g) ==
  /\ greq[g].pc = "find"
  /\ greq'[g] # greq[g]

\* The investor's criteria of selection, on a startup row.
SatisfiesCriteria(investor, startup) ==
  /\ startup.landType \in investor.preferredIndustries
  /\ startup.stage \in investor.preferredStages
  /\ startup.techScore >= investor.techScoreMin
  /\ startup.socialScore >= investor.socialScoreMin
  /\ startup.teamSize >= investor.teamSizeMin

\* C28: the startups POST /generate selects are, when selected, outside the
\* investor's portfolio, without a Match with the investor and within all
\* the investor's criteria, and no more than `limit` of them; each Match the
\* request creates is for the next selected startup, with status pending.
C28_GeneratedMatchesAreSelected ==
  [][\A g \in GenerateReqs :
       LET investorId == Val(greq[g].investorId)
           investor == InvestorTable[investorId]
       IN  /\ GenFound(g) =>
                /\ Len(greq'[g].todo) <= greq[g].limit
                /\ \A i \in DOMAIN greq'[g].todo :
                     LET startup == greq'[g].todo[i]
                     IN  /\ startup = [id |-> startup.id] @@ startups[startup.id]
                         /\ startup.id \notin investor.portfolio
                         /\ \A id \in DOMAIN matches :
                              ~ /\ matches[id].investorId = investorId
                                /\ matches[id].startupId = startup.id
                         /\ SatisfiesCriteria(investor, startup)
           /\ GenCreated(g) =>
                /\ matches'[nextMatchId].investorId = investorId
                /\ matches'[nextMatchId].startupId = Head(greq[g].todo).id
                /\ matches'[nextMatchId].status = "pending"
                /\ Len(greq'[g].created) + Len(greq'[g].todo) <= greq[g].limit]_vars

\* A request with limit 1 took one of the two startups that suit inv1 and
\* created its Match.
C28_Witness ==
  \E g \in GenerateReqs :
    /\ greq[g].pc = "done"
    /\ greq[g].resp = 200
    /\ greq[g].limit = 1
    /\ greq[g].investorId = Some("inv1")
    /\ Len(greq[g].created) = 1
    /\ greq[g].created[1] \in DOMAIN matches
    /\ matches[greq[g].created[1]].status = "pending"
    /\ Cardinality({s \in DOMAIN startups :
                      SatisfiesCriteria(InvestorTable.inv1, startups[s])}) = 2

\* C29: every Match POST /generate creates has a score of at least 60 and,
\* among its reasons, those of the category, the stage, the technical
\* score, the social score and the team size.
C29_GeneratedMatchesScore60 ==
  [][\A g \in GenerateReqs :
       GenCreated(g) =>
         /\ matches'[nextMatchId].score >= 60
         /\ \A reason \in {"industry", "stage", "techScore", "socialScore",
                           "teamSize"} :
              \E i \in DOMAIN matches'[nextMatchId].reasons :
                matches'[nextMatchId].reasons[i] = reason]_vars

\* A generated Match with the five reasons and no more, on thresholds met
\* with equality and a score close to the least.
C29_Witness ==
  \E g \in GenerateReqs :
    /\ greq[g].pc = "done"
    /\ greq[g].created # <<>>
    /\ greq[g].created[1] \in DOMAIN matches
    /\ Len(matches[greq[g].created[1]].reasons) = 5
    /\ matches[greq[g].created[1]].score = 62

\* C12 (as claimed): a create request that names no investor or no startup
\* on record, and a generate request that names no investor on record, end
\* with 404.
C12_UnknownIdsGet404 ==
  /\ \A r \in CreateReqs :
       ( /\ creq[r].pc = "done"
         /\ createMatchSchema(creq[r].body) # None
         /\ \/ creq[r].body.investorId \notin DOMAIN InvestorTable
            \/ creq[r].body.startupId \notin DOMAIN startups )
       => creq[r].resp = 404
  /\ \A g \in GenerateReqs :
       ( /\ greq[g].pc = "done"
         /\ greq[g].investorId # None
         /\ Val(greq[g].investorId) \notin DOMAIN InvestorTable )
       => (greq[g].resp = 404 /\ greq[g].created = <<>>)

\* C15 (as claimed): a Match that a step keeps has after it the investorId,
\* startupId, score and reasons it had before, and only a DELETE request
\* removes a Match.
C15_OnlyStatusChanges ==
  [][/\ \A id \in DOMAIN matches \cap DOMAIN matches' :
          /\ matches'[id].investorId = matches[id].investorId
          /\ matches'[id].startupId = matches[id].startupId
          /\ matches'[id].score = matches[id].score
          /\ matches'[id].reasons = matches[id].reasons
     /\ \/ DOMAIN matches \subseteq DOMAIN matches'
        \/ \E m \in MutateReqs :
             /\ mreq[m].pc = "idle"
             /\ mreq'[m].pc = "done"
             /\ mreq'[m].op = "DELETE"]_vars

(***************************************************************************)
(* SpecRepeat: POST /api/matchmaking/generate invoked again and again, each *)
(* request after the answer to the one before, on the startups and          *)
(* investors of Init.  The requests keep coming and every handler runs to   *)
(* its response, hence the weak fairness.                                   *)
(***************************************************************************)
\* The client, answered, sends its next request.
GenAgain(g) ==
  /\ greq[g].pc = "done"
  /\ greq' = [greq EXCEPT ![g] = Idle]
  /\ UNCHANGED <<call, discVars, matches, nextMatchId, creq, mreq, startups, scoreVars, queueVars>>

\* The requests do not overlap: they are those of one client, which sends
\* the next when the last was answered.
RepeatClient == 1

RepeatNext ==
  \/ GenLookup(RepeatClient)
  \/ GenFind(RepeatClient)
  \/ GenCreate(RepeatClient)
  \/ GenAgain(RepeatClient)

SpecRepeat == Init /\ [][RepeatNext]_vars /\ WF_vars(RepeatNext)

\* The Matches of an investor.
MatchesOf(investorId) ==
  {id \in DOMAIN matches : matches[id].investorId = investorId}

\* C30: with the startups and investors fixed, repeated generate requests
\* come to answer with no new match and answer so ever after, and an
\* investor never has more Matches than there are startups within the
\* investor's criteria.
C30_GenerationRunsDry ==
  /\ <>[](\A g \in GenerateReqs :
            (greq[g].pc = "done" /\ greq[g].resp \notin {400, 404})
            => (greq[g].resp = 200 /\ greq[g].created = <<>>))
  /\ [](\A investorId \in DOMAIN InvestorTable :
          Cardinality(MatchesOf(investorId))
            <= Cardinality({s \in DOMAIN startups :
                 SatisfiesCriteria(InvestorTable[investorId], startups[s])}))

\* A request for inv1 answered with no new match, both startups that suit
\* inv1 having their Match.
C30_Witness ==
  \E g \in GenerateReqs :
    /\ greq[g].pc = "done"
    /\ greq[g].resp = 200
    /\ greq[g].investorId = Some("inv1")
    /\ greq[g].created = <<>>
    /\ Cardinality(MatchesOf("inv1")) = 2

(***************************************************************************)
(* backend/src/routes/startups.ts and scoring.ts: the startup and scoring  *)
(* endpoints, one action per awaited operation.  The requests modelled are *)
(* those the authentication middleware lets through.                       *)
(***************************************************************************)
\* The value of techScore, socialScore, overallScore and giScore in a row
\* created without them.
DefaultScore == 0

GhostStartupId == 0

TickHours == 25

MaxTicks == 1

NumStartupCreate == 1

NumStartupUpdate == 1

NumCalc == 1

StartupCreateReqs == 1..NumStartupCreate

StartupUpdateReqs == 1..NumStartupUpdate

CalcReqs == 1..NumCalc

NumScoresGet == 1

ScoresReqs == 1..NumScoresGet

\* createStartupSchema.parse, on the fields the scores and matches read.
createStartupSchema(body) ==
  IF body.stage \in Stages /\ body.teamSize > 0 THEN Some(body) ELSE None

\* updateStartupSchema = createStartupSchema.partial(): an absent field
\* passes, a present one is validated as on creation.
updateStartupSchema(body) ==
  IF /\ (body.stage = None \/ Val(body.stage) \in Stages)
     /\ (body.teamSize = None \/ Val(body.teamSize) > 0)
  THEN Some(body) ELSE None

\* scoreStartupSchema.parse.
scoreStartupSchema(body) ==
  IF body.startupId = None THEN None
  ELSE Some([startupId |-> Val(body.startupId),
             forceUpdate |-> IF body.forceUpdate = None THEN FALSE
                             ELSE Val(body.forceUpdate)])

StartupCreateBodies ==
  [githubUrl : {None, Some("github.com/acme/farm")},
   twitterUrl : {None, Some("twitter.com/acme")},
   stage : {"early"}, teamSize : {8}, landType : {"agricultural"},
   fundingRequired : {None}, user : {"founder"}]
  \cup [githubUrl : {None}, twitterUrl : {None},
        stage : {"scale", "prototype"},
        teamSize : {8}, landType : {"agricultural"},
        fundingRequired : {None}, user : {"founder"}]

\* The PUT requests: the id in the path, the body and the user.
StartupUpdates ==
  { [id |-> b[1],
     body |-> [githubUrl |-> b[2], twitterUrl |-> None, stage |-> b[3],
               teamSize |-> None, user |-> b[4]]] :
      b \in {<<1, Some("github.com/acme/farm2"), Some("growth"), "founder">>,
             <<1, None, Some("scale"), "founder">>,
             <<1, None, Some("prototype"), "founder">>,
             <<1, None, Some("growth"), "stranger">>,
             <<GhostStartupId, None, Some("growth"), "founder">>} }

CalcBodies ==
  [startupId : {Some(id) : id \in StartupCreateReqs},
   forceUpdate : {None, Some(TRUE)}]
  \cup [startupId : {None, Some(GhostStartupId)}, forceUpdate : {None}]

\* What the GitHub and Twitter APIs answer.
EmptyGithub ==
  [commits  |-> <<>>,
   repoData |-> [stargazers_count |-> 0, forks_count |-> 0,
                 watchers_count |-> 0, open_issues_count |-> 0,
                 size |-> 0, language |-> None],
   prs      |-> <<>>,
   issues   |-> <<>>]

GithubFetches == {ExampleGithub, EmptyGithub}

ExampleTwitter ==
  [user   |-> [verified |-> TRUE,
               public_metrics |-> [followers_count |-> 49500, tweet_count |-> 5]],
   tweets |-> <<[like_count |-> 900, retweet_count |-> 250, reply_count |-> 40,
                 created_at |-> RecentDate]>>]

EmptyTwitter ==
  [user   |-> [verified |-> FALSE,
               public_metrics |-> [followers_count |-> 0, tweet_count |-> 0]],
   tweets |-> <<>>]

TwitterFetches == {ExampleTwitter, EmptyTwitter}

\* What extractMarketPotential and extractUniquenessScore draw.
MarketPotentialDraws == {60, 99}

UniquenessDraws == {61}

\* upsert and update on a table kept as a function of the startup id.
Put(table, id, row) ==
  [k \in DOMAIN table \cup {id} |-> IF k = id THEN row ELSE table[k]]

Row(table, id) == IF id \in DOMAIN table THEN Some(table[id]) ELSE None

\* The fields an agriTechMetrics upsert writes, over those on record.
Merge(new, old) ==
  [f \in DOMAIN new \cup DOMAIN old |-> IF f \in DOMAIN new THEN new[f] ELSE old[f]]

upsertMetrics(table, id, fields, now_) ==
  IF id \in DOMAIN table
  THEN Put(table, id, Merge(fields @@ [lastUpdated |-> now_], table[id]))
  ELSE Put(table, id, fields)

shouldUpdate(forceUpdate, techScoreRow, socialScoreRow, now_) ==
  \/ forceUpdate
  \/ techScoreRow = None
  \/ socialScoreRow = None
  \/ isScoreStale(Val(techScoreRow).lastUpdated, now_)
  \/ isScoreStale(Val(socialScoreRow).lastUpdated, now_)

\* giScore: Math.round((marketPotential + uniquenessScore) / 2)
giScoreOf(marketPotential, uniquenessScore) ==
  MathRound(FDiv(FromInt(marketPotential + uniquenessScore), FromInt(2)))

BlankCalc ==
  [pc |-> "done", body |-> <<>>, startup |-> <<>>, techScore |-> None,
   socialScore |-> None, fetched |-> <<>>, resp |-> 0,
   cached |-> FALSE]

(***************************************************************************)
(* The technical, social and GI scores of every answer the APIs can give   *)
(* at every hour the clock can show, computed once by the functions above. *)
(* The handlers below run these functions by looking their result up.      *)
(***************************************************************************)
ScoreClocks == {CalcNow + (k * TickHours) : k \in 0..MaxTicks}

TechScoreRuns ==
  {[github |-> github, at |-> t, techScore |-> TechScoreOf(github, t)] :
     github \in GithubFetches, t \in ScoreClocks}

SocialScoreRuns ==
  {[twitter |-> twitter, at |-> t, socialScore |-> SocialScoreOf(twitter, t)] :
     twitter \in TwitterFetches, t \in ScoreClocks}

GIAnalysisRows ==
  {[marketPotential |-> marketPotential, uniquenessScore |-> uniquenessScore,
    certificationStatus |-> IF marketPotential > 70 THEN "recommended"
                            ELSE "pending"] :
     marketPotential \in MarketPotentialDraws, uniquenessScore \in UniquenessDraws}

GIScoreRuns ==
  {[row |-> row, giScore |-> giScoreOf(row.marketPotential, row.uniquenessScore)] :
     row \in GIAnalysisRows}

RunTechScore(github, t) ==
  (CHOOSE run \in TechScoreRuns : run.github = github /\ run.at = t).techScore

RunSocialScore(twitter, t) ==
  (CHOOSE run \in SocialScoreRuns : run.twitter = twitter /\ run.at = t).socialScore

RunGIScore(row) == (CHOOSE run \in GIScoreRuns : run.row = row).giScore

TechScoreResults == {None} \cup {Some(run.techScore) : run \in TechScoreRuns}

SocialScoreResults == {None} \cup {Some(run.socialScore) : run \in SocialScoreRuns}

GIAnalysisResults == {None} \cup {Some(row) : row \in GIAnalysisRows}

OverallScoreRuns ==
  {[techScore |-> techScore, socialScore |-> socialScore, giScore |-> giScore,
    overallScore |-> calculateOverallScore(techScore, socialScore, giScore)] :
     techScore \in TechScoreResults, socialScore \in SocialScoreResults,
     giScore \in GIAnalysisResults}

RunOverallScore(techScore, socialScore, giScore) ==
  (CHOOSE run \in OverallScoreRuns :
     /\ run.techScore = techScore
     /\ run.socialScore = socialScore
     /\ run.giScore = giScore).overallScore

ScoreInit ==
  /\ call = [fn |-> "none"]
  /\ matches = <<>>
  /\ nextMatchId = 1
  /\ creq = <<>>
  /\ greq = <<>>
  /\ mreq = <<>>
  /\ startups = <<>>
  /\ techScoreData = <<>>
  /\ socialScoreData = <<>>
  /\ giAnalysisData = <<>>
  /\ agriTechMetrics = <<>>
  /\ clock = CalcNow
  /\ startupReq = [r \in StartupCreateReqs |-> Idle]
  /\ updateReq = [u \in StartupUpdateReqs |-> Idle]
  /\ calcReq = [c \in CalcReqs |-> Idle]
  /\ scoresReq = [q \in ScoresReqs |-> Idle]
  /\ QueueIdle
  /\ DiscoveryIdle

Tick ==
  /\ clock < CalcNow + (MaxTicks * TickHours)
  /\ clock' = clock + TickHours
  /\ UNCHANGED <<call, discVars, matchVars, queueVars, scoresReq, startups, techScoreData, socialScoreData,
                 giAnalysisData, agriTechMetrics, startupReq, updateReq, calcReq>>

\* POST /api/startups up to agriTechStartup.create; the row gets the id of
\* the request.
StartupCreate(r) ==
  /\ startupReq[r].pc = "idle"
  /\ Arrives(startupReq, r)
  /\ \E body \in StartupCreateBodies :
       IF createStartupSchema(body) = None
       THEN /\ startupReq' = [startupReq EXCEPT ![r] =
                 [pc |-> "done", body |-> body, resp |-> 400]]
            /\ UNCHANGED startups
       ELSE /\ startups' = Put(startups, r,
                 [githubUrl |-> body.githubUrl, twitterUrl |-> body.twitterUrl,
                  stage |-> body.stage, teamSize |-> body.teamSize,
                  landType |-> body.landType,
                  fundingRequired |-> body.fundingRequired,
                  founder |-> body.user, techScore |-> DefaultScore,
                  socialScore |-> DefaultScore, overallScore |-> DefaultScore,
                  giScore |-> DefaultScore, giCertified |-> FALSE])
            /\ startupReq' = [startupReq EXCEPT ![r] =
                 [pc |-> "adk", body |-> body, resp |-> 0]]
  /\ UNCHANGED <<call, discVars, matchVars, queueVars, scoresReq, techScoreData, socialScoreData,
                 giAnalysisData, agriTechMetrics, clock, updateReq, calcReq>>

\* triggerGIAnalysis: the ADK call fails; the startup is answered all the same.
GIAnalysisFail(r) ==
  /\ startupReq[r].pc = "adk"
  /\ startupReq' = [startupReq EXCEPT ![r].pc = "done", ![r].resp = 201]
  /\ UNCHANGED <<call, discVars, matchVars, queueVars, scoresReq, startups, techScoreData, socialScoreData,
                 giAnalysisData, agriTechMetrics, clock, updateReq, calcReq>>

\* triggerGIAnalysis: the ADK call answers and the analysis is upserted.
GIAnalysisSave(r) ==
  /\ startupReq[r].pc = "adk"
  /\ \E row \in GIAnalysisRows : giAnalysisData' = Put(giAnalysisData, r, row)
  /\ startupReq' = [startupReq EXCEPT ![r].pc = "giUpdate"]
  /\ UNCHANGED <<call, discVars, matchVars, queueVars, scoresReq, startups, techScoreData, socialScoreData,
                 agriTechMetrics, clock, updateReq, calcReq>>

\* triggerGIAnalysis: agriTechStartup.update, then the response of POST.
GIStartupUpdate(r) ==
  /\ startupReq[r].pc = "giUpdate"
  /\ startups' = [startups EXCEPT ![r] =
       [@ EXCEPT !.giCertified = giAnalysisData[r].marketPotential > 70,
                 !.giScore = RunGIScore(giAnalysisData[r])]]
  /\ startupReq' = [startupReq EXCEPT ![r].pc = "done", ![r].resp = 201]
  /\ UNCHANGED <<call, discVars, matchVars, queueVars, scoresReq, techScoreData, socialScoreData,
                 giAnalysisData, agriTechMetrics, clock, updateReq, calcReq>>

\* PUT /api/startups/:id up to the answer of findUnique.
StartupUpdateLookup(u) ==
  /\ updateReq[u].pc = "idle"
  /\ Arrives(updateReq, u)
  /\ \E put \in StartupUpdates :
       updateReq' = [updateReq EXCEPT ![u] =
         LET id == put.id
             body == put.body
             req == [pc |-> "done", id |-> id, body |-> body, resp |-> 0]
         IN  IF updateStartupSchema(body) = None
             THEN [req EXCEPT !.resp = 400]
             ELSE IF id \notin DOMAIN startups
             THEN [req EXCEPT !.resp = 404]
             ELSE IF startups[id].founder # body.user /\ body.user # "admin"
             THEN [req EXCEPT !.resp = 403]
             ELSE [req EXCEPT !.pc = "write"]]
  /\ UNCHANGED <<call, discVars, matchVars, queueVars, scoresReq, startups, techScoreData, socialScoreData,
                 giAnalysisData, agriTechMetrics, clock, startupReq, calcReq>>

\* PUT /api/startups/:id: agriTechStartup.update with the validated fields.
StartupUpdateWrite(u) ==
  /\ updateReq[u].pc = "write"
  /\ LET body == updateReq[u].body
     IN  startups' = [startups EXCEPT ![updateReq[u].id] =
           [@ EXCEPT !.githubUrl = IF body.githubUrl = None THEN @
                                   ELSE body.githubUrl,
                     !.twitterUrl = IF body.twitterUrl = None THEN @
                                    ELSE body.twitterUrl,
                     !.stage = IF body.stage = None THEN @ ELSE Val(body.stage),
                     !.teamSize = IF body.teamSize = None THEN @
                                  ELSE Val(body.teamSize)]]
  /\ updateReq' = [updateReq EXCEPT ![u].pc = "done", ![u].resp = 200]
  /\ UNCHANGED <<call, discVars, matchVars, queueVars, scoresReq, techScoreData, socialScoreData,
                 giAnalysisData, agriTechMetrics, clock, startupReq, calcReq>>

\* The operation POST /calculate awaits next, once the scores up to `after`
\* are done.
NextCalcStep(startup, after) ==
  IF after = "lookup" /\ startup.githubUrl # None THEN "tech"
  ELSE IF startup.twitterUrl # None THEN "social"
  ELSE "update"

\* POST /api/scoring/calculate up to the answer of findUnique.  NumCalc
\* requests are under way at a time: the next one takes the place of one
\* that was answered.
CalcLookup(c) ==
  /\ calcReq[c].pc \in {"idle", "done"}
  /\ Arrives(calcReq, c)
  /\ \E body \in CalcBodies :
       LET parsed == scoreStartupSchema(body)
           req == [BlankCalc EXCEPT !.body = body]
       IN  calcReq' = [calcReq EXCEPT ![c] =
             IF parsed = None THEN [req EXCEPT !.resp = 400]
             ELSE IF Val(parsed).startupId \notin DOMAIN startups
             THEN [req EXCEPT !.resp = 404]
             ELSE LET id == Val(parsed).startupId
                      startup == [id |-> id,
                                  githubUrl |-> startups[id].githubUrl,
                                  twitterUrl |-> startups[id].twitterUrl,
                                  techScore |-> startups[id].techScore,
                                  socialScore |-> startups[id].socialScore,
                                  overallScore |-> startups[id].overallScore,
                                  techScoreData |-> Row(techScoreData, id),
                                  socialScoreData |-> Row(socialScoreData, id),
                                  giAnalysisData |-> Row(giAnalysisData, id),
                                  metrics |-> Row(agriTechMetrics, id)]
                  IN  IF shouldUpdate(Val(parsed).forceUpdate,
                                      startup.techScoreData,
                                      startup.socialScoreData, clock)
                      THEN [req EXCEPT !.pc = NextCalcStep(startup, "lookup"),
                                       !.startup = startup]
                      ELSE [req EXCEPT !.resp = 200, !.cached = TRUE,
                                       !.startup = startup,
                                       !.techScore = startup.techScoreData,
                                       !.socialScore = startup.socialScoreData]]
  /\ UNCHANGED <<call, discVars, matchVars, queueVars, scoresReq, startups, techScoreData, socialScoreData,
                 giAnalysisData, agriTechMetrics, clock, startupReq, updateReq>>

\* calculateTechScore throws: no token, or a GitHub request fails.
CalcTechFail(c) ==
  /\ calcReq[c].pc = "tech"
  /\ calcReq' = [calcReq EXCEPT ![c].pc = "done", ![c].resp = 500]
  /\ UNCHANGED <<call, discVars, matchVars, queueVars, scoresReq, startups, techScoreData, socialScoreData,
                 giAnalysisData, agriTechMetrics, clock, startupReq, updateReq>>

\* calculateTechScore: GitHub answers, techScore.upsert.
CalcTechScoreTo(c, github, techScore) ==
  /\ techScoreData' = Put(techScoreData, calcReq[c].startup.id, techScore)
  /\ calcReq' = [calcReq EXCEPT ![c].pc = "techMetrics",
                                ![c].techScore = Some(techScore),
                                ![c].fetched = github]

CalcTechScore(c) ==
  /\ calcReq[c].pc = "tech"
  /\ \E github \in GithubFetches :
       CalcTechScoreTo(c, github, RunTechScore(github, clock))
  /\ UNCHANGED <<call, discVars, matchVars, queueVars, scoresReq, startups, socialScoreData, giAnalysisData,
                 agriTechMetrics, clock, startupReq, updateReq>>

\* calculateTechScore: agriTechMetrics.upsert.
CalcTechMetrics(c) ==
  /\ calcReq[c].pc = "techMetrics"
  /\ LET github == calcReq[c].fetched
     IN  agriTechMetrics' = upsertMetrics(agriTechMetrics, calcReq[c].startup.id,
           [githubStars |-> github.repoData.stargazers_count,
            githubForks |-> github.repoData.forks_count,
            githubCommits |-> Len(github.commits),
            githubPrs |-> Len(github.prs),
            githubIssues |-> Len(github.issues)], clock)
  /\ calcReq' = [calcReq EXCEPT ![c].pc = NextCalcStep(calcReq[c].startup, "tech"),
                                ![c].fetched = <<>>]
  /\ UNCHANGED <<call, discVars, matchVars, queueVars, scoresReq, startups, techScoreData, socialScoreData,
                 giAnalysisData, clock, startupReq, updateReq>>

\* calculateSocialScore throws: no token, or a Twitter request fails.
CalcSocialFail(c) ==
  /\ calcReq[c].pc = "social"
  /\ calcReq' = [calcReq EXCEPT ![c].pc = "done", ![c].resp = 500]
  /\ UNCHANGED <<call, discVars, matchVars, queueVars, scoresReq, startups, techScoreData, socialScoreData,
                 giAnalysisData, agriTechMetrics, clock, startupReq, updateReq>>

\* calculateSocialScore: Twitter answers, socialScore.upsert.
CalcSocialScoreTo(c, twitter, socialScore) ==
  /\ socialScoreData' = Put(socialScoreData, calcReq[c].startup.id, socialScore)
  /\ calcReq' = [calcReq EXCEPT ![c].pc = "socialMetrics",
                                ![c].socialScore = Some(socialScore),
                                ![c].fetched = twitter]

CalcSocialScore(c) ==
  /\ calcReq[c].pc = "social"
  /\ \E twitter \in TwitterFetches :
       CalcSocialScoreTo(c, twitter, RunSocialScore(twitter, clock))
  /\ UNCHANGED <<call, discVars, matchVars, queueVars, scoresReq, startups, techScoreData, giAnalysisData,
                 agriTechMetrics, clock, startupReq, updateReq>>

\* calculateSocialScore: agriTechMetrics.upsert.
CalcSocialMetrics(c) ==
  /\ calcReq[c].pc = "socialMetrics"
  /\ LET twitter == calcReq[c].fetched
     IN  agriTechMetrics' = upsertMetrics(agriTechMetrics, calcReq[c].startup.id,
           [twitterFollowers |-> twitter.user.public_metrics.followers_count,
            twitterTweets |-> twitter.user.public_metrics.tweet_count,
            twitterEngagement |-> Val(calcReq[c].socialScore).engagement], clock)
  /\ calcReq' = [calcReq EXCEPT ![c].pc = "update", ![c].fetched = <<>>]
  /\ UNCHANGED <<call, discVars, matchVars, queueVars, scoresReq, startups, techScoreData, socialScoreData,
                 giAnalysisData, clock, startupReq, updateReq>>

\* POST /calculate: agriTechStartup.update and the response.
CalcUpdateTo(c, overallScore) ==
  /\ startups' = [startups EXCEPT ![calcReq[c].startup.id] =
       [@ EXCEPT !.techScore = IF calcReq[c].techScore = None THEN 0
                               ELSE Val(calcReq[c].techScore).score,
                 !.socialScore = IF calcReq[c].socialScore = None THEN 0
                                 ELSE Val(calcReq[c].socialScore).score,
                 !.overallScore = overallScore]]
  /\ calcReq' = [calcReq EXCEPT ![c].pc = "done", ![c].resp = 200,
                                ![c].startup.overallScore = overallScore]

CalcUpdate(c) ==
  /\ calcReq[c].pc = "update"
  /\ CalcUpdateTo(c, RunOverallScore(calcReq[c].techScore,
                                     calcReq[c].socialScore,
                                     calcReq[c].startup.giAnalysisData))
  /\ UNCHANGED <<call, discVars, matchVars, queueVars, scoresReq, techScoreData, socialScoreData,
                 giAnalysisData, agriTechMetrics, clock, startupReq, updateReq>>


\* GET /api/scoring/startup/:id: findUnique with the score rows, and the
\* response.
ScoresGet(q) ==
  /\ scoresReq[q].pc = "idle"
  /\ Arrives(scoresReq, q)
  /\ \E id \in StartupCreateReqs \cup {GhostStartupId} :
       scoresReq' = [scoresReq EXCEPT ![q] =
         IF id \notin DOMAIN startups
         THEN [pc |-> "done", id |-> id, resp |-> 404, techScore |-> None,
               socialScore |-> None, overallScore |-> 0]
         ELSE [pc |-> "done", id |-> id, resp |-> 200,
               techScore |-> Row(techScoreData, id),
               socialScore |-> Row(socialScoreData, id),
               overallScore |-> startups[id].overallScore]]
  /\ UNCHANGED <<call, discVars, matchVars, queueVars, startups, techScoreData,
                 socialScoreData, giAnalysisData, agriTechMetrics, clock,
                 startupReq, updateReq, calcReq>>

ScoreNext ==
  \/ Tick
  \/ \E r \in StartupCreateReqs : StartupCreate(r)
  \/ \E r \in StartupCreateReqs : GIAnalysisFail(r)
  \/ \E r \in StartupCreateReqs : GIAnalysisSave(r)
  \/ \E r \in StartupCreateReqs : GIStartupUpdate(r)
  \/ \E u \in StartupUpdateReqs : StartupUpdateLookup(u)
  \/ \E u \in StartupUpdateReqs : StartupUpdateWrite(u)
  \/ \E c \in CalcReqs : CalcLookup(c)
  \/ \E c \in CalcReqs : CalcTechFail(c)
  \/ \E c \in CalcReqs : CalcTechScore(c)
  \/ \E c \in CalcReqs : CalcTechMetrics(c)
  \/ \E c \in CalcReqs : CalcSocialFail(c)
  \/ \E c \in CalcReqs : CalcSocialScore(c)
  \/ \E c \in CalcReqs : CalcSocialMetrics(c)
  \/ \E c \in CalcReqs : CalcUpdate(c)

SpecScore == ScoreInit /\ [][ScoreNext]_vars

\* The requests that read the scores, with those that create a startup and
\* compute its scores.  GET writes nothing, so the requests of SpecScore are
\* checked without it.
ReadNext ==
  \/ Tick
  \/ \E r \in StartupCreateReqs : StartupCreate(r)
  \/ \E r \in StartupCreateReqs : GIAnalysisFail(r)
  \/ \E r \in StartupCreateReqs : GIAnalysisSave(r)
  \/ \E r \in StartupCreateReqs : GIStartupUpdate(r)
  \/ \E c \in CalcReqs : CalcLookup(c)
  \/ \E c \in CalcReqs : CalcTechFail(c)
  \/ \E c \in CalcReqs : CalcTechScore(c)
  \/ \E c \in CalcReqs : CalcTechMetrics(c)
  \/ \E c \in CalcReqs : CalcSocialFail(c)
  \/ \E c \in CalcReqs : CalcSocialScore(c)
  \/ \E c \in CalcReqs : CalcSocialMetrics(c)
  \/ \E c \in CalcReqs : CalcUpdate(c)
  \/ \E q \in ScoresReqs : ScoresGet(q)

SpecRead == ScoreInit /\ [][ReadNext]_vars

(***************************************************************************)
(* Claims checked under SpecScore.                                         *)
(***************************************************************************)
Quiescent ==
  /\ \A r \in StartupCreateReqs : startupReq[r].pc \in {"idle", "done"}
  /\ \A u \in StartupUpdateReqs : updateReq[u].pc \in {"idle", "done"}
  /\ \A c \in CalcReqs : calcReq[c].pc \in {"idle", "done"}

StoredMarketPotential(id) ==
  IF id \in DOMAIN giAnalysisData THEN giAnalysisData[id].marketPotential ELSE 0

\* C7: whenever no request is under way, the overallScore stored for a
\* startup is round(0.40*T + 0.30*S + 0.30*G) of its stored techScore T,
\* socialScore S and GI marketPotential G (0 when there is no analysis),
\* rounded exactly or as calculateOverallScore rounds.
C7_OverallScoreDerived ==
  Quiescent =>
    \A id \in DOMAIN startups :
      LET T == startups[id].techScore
          S == startups[id].socialScore
          G == StoredMarketPotential(id)
      IN  \/ startups[id].overallScore
               = RoundHalfUp((40 * T) + (30 * S) + (30 * G), 100)
          \/ startups[id].overallScore
               = calculateOverallScore(Some(ScoreRecord(T)), Some(ScoreRecord(S)),
                                       Some(GIRecord(G)))

\* The rows a calculate request holds were written less than 24 hours
\* before the hour now.
ComputedWithinDay(req, now) ==
  \E row \in {req.techScore, req.socialScore} \ {None} :
    now - Val(row).lastUpdated < StaleHours

\* C13 (as claimed): a calculate request without forceUpdate that follows,
\* within 24 hours, a calculate request for the same startup that computed
\* its scores is answered 200 with cached = true at once, with no further
\* step and no write.
C13_FreshScoresAreServedFromStore ==
  [][\A c \in CalcReqs :
       ( /\ calcReq[c].pc = "done"
         /\ calcReq'[c] # calcReq[c]
         /\ calcReq[c].resp = 200
         /\ ~calcReq[c].cached
         /\ calcReq'[c].body.startupId = Some(calcReq[c].startup.id)
         /\ calcReq'[c].body.forceUpdate = None
         /\ ComputedWithinDay(calcReq[c], clock) )
       => /\ calcReq'[c].pc = "done"
          /\ calcReq'[c].resp = 200
          /\ calcReq'[c].cached]_vars

\* A response that carries score rows carries none older than 24 hours.
ReturnsCurrentScores(resp, now) ==
  \A row \in {resp.techScore, resp.socialScore} \ {None} :
    ~isScoreStale(Val(row).lastUpdated, now)

\* C14 (as claimed): a GET /api/scoring/startup/:id answered 200 and a
\* calculate request answered from the store return no technical or social
\* score row older than 24 hours.
C14_NoStaleScoresReturned ==
  [][/\ \A q \in ScoresReqs :
          ( /\ scoresReq[q].pc = "idle"
            /\ scoresReq'[q].pc = "done"
            /\ scoresReq'[q].resp = 200 )
          => ReturnsCurrentScores(scoresReq'[q], clock)
     /\ \A c \in CalcReqs :
          ( /\ calcReq'[c] # calcReq[c]
            /\ calcReq'[c].pc = "done"
            /\ calcReq'[c].resp = 200
            /\ calcReq'[c].cached )
          => ReturnsCurrentScores(calcReq'[c], clock)]_vars


\* C24: a POST /api/scoring/calculate that ends in an error leaves the stored
\* score state as it found it: the TechScore row, the SocialScore row, the
\* metrics row and the startup's techScore, socialScore and overallScore are
\* those its findUnique read.
C24_FailedCalculateWritesNothing ==
  \A c \in CalcReqs :
    (calcReq[c].pc = "done" /\ calcReq[c].resp = 500)
    => LET startup == calcReq[c].startup
       IN  /\ Row(techScoreData, startup.id) = startup.techScoreData
           /\ Row(socialScoreData, startup.id) = startup.socialScoreData
           /\ Row(agriTechMetrics, startup.id) = startup.metrics
           /\ startups[startup.id].techScore = startup.techScore
           /\ startups[startup.id].socialScore = startup.socialScore
           /\ startups[startup.id].overallScore = startup.overallScore

\* C19: a fetch without commits gives codeActivity 0, one without PRs and
\* issues projectMaintenance 0, one without tweets engagement 0 and activity
\* 0; a startup without GitHub or Twitter URL gets 0 for that score; and a
\* calculate request whose fetches were answered ends with 200 and stores
\* the scores it computed.
C19_ZeroDataGivesZeroAndCompletes ==
  [][\A c \in CalcReqs :
       LET req  == calcReq[c]
           req_ == calcReq'[c]
       IN  /\ (req.pc = "tech" /\ req_.pc = "techMetrics") =>
                /\ (req_.fetched.commits = <<>>
                      => Val(req_.techScore).codeActivity = 0)
                /\ ((req_.fetched.prs = <<>> /\ req_.fetched.issues = <<>>)
                      => Val(req_.techScore).projectMaintenance = 0)
           /\ (req.pc = "social" /\ req_.pc = "socialMetrics"
                 /\ req_.fetched.tweets = <<>>) =>
                /\ Val(req_.socialScore).engagement = 0
                /\ Val(req_.socialScore).activity = 0
           /\ req.pc \in {"techMetrics", "socialMetrics", "update"} =>
                /\ (req_.pc # "done" \/ req_.resp = 200)
                /\ (req.pc = "techMetrics" => req_.pc # "done")
           /\ (req.pc = "update" /\ req_.pc = "done") =>
                LET id == req.startup.id
                IN  /\ (req.startup.githubUrl = None
                          => startups'[id].techScore = 0)
                    /\ (req.startup.twitterUrl = None
                          => startups'[id].socialScore = 0)
                    /\ (req.techScore # None
                          => /\ startups'[id].techScore
                                  = Val(req.techScore).score
                             /\ techScoreData[id].lastUpdated
                                  >= Val(req.techScore).lastUpdated)
                    /\ (req.socialScore # None
                          => /\ startups'[id].socialScore
                                  = Val(req.socialScore).score
                             /\ socialScoreData[id].lastUpdated
                                  >= Val(req.socialScore).lastUpdated)]_vars

\* A startup without GitHub URL whose account has no tweet was scored: the
\* request ended 200 with technical score 0 and the social score stored.
C19_Witness ==
  \E c \in CalcReqs :
    /\ calcReq[c].pc = "done"
    /\ calcReq[c].resp = 200
    /\ ~calcReq[c].cached
    /\ calcReq[c].startup.githubUrl = None
    /\ calcReq[c].techScore = None
    /\ calcReq[c].socialScore # None
    /\ Val(calcReq[c].socialScore).engagement = 0
    /\ Val(calcReq[c].socialScore).activity = 0
    /\ startups[calcReq[c].startup.id].techScore = 0
    /\ calcReq[c].startup.id \in DOMAIN socialScoreData

(***************************************************************************)
(* services/matchmaking-service: the Bull queue of generate-matches jobs,  *)
(* the request and the schedule that add jobs, and the processor.  The     *)
(* queue runs one job at a time.  A job that throws is tried again after   *)
(* its backoff while it has made fewer attempts than its attempts option,  *)
(* and is failed for good otherwise.                                       *)
(***************************************************************************)
\* attempts of the jobs POST /generate-matches adds, and of a job added
\* without options.
RequestAttempts == 3

DefaultAttempts == 1

DefaultJobLimit == 10

CronLimit == 5

NumJobReq == 2

MaxCronRuns == 1

JobReqs == 1..NumJobReq

JobBodies ==
  { [investorId |-> Some("inv1"), limit |-> None, priority |-> None],
    [investorId |-> Some("inv1"), limit |-> Some(1), priority |-> Some("high")],
    [investorId |-> Some(GhostId), limit |-> None, priority |-> None],
    [investorId |-> None, limit |-> None, priority |-> None] }

\* What GET /api/investors?limit=50 and GET /api/projects answer; an error
\* reads as the empty list.
ActiveInvestorLists == {<<>>, <<"inv1">>, <<"inv1", "inv2">>}

ProjectFetches == {<<>>, <<"st1">>, <<"st1", "st2">>}

\* matchmakingQueue.add: the job as the queue keeps it.
NewJob(data, attempts) ==
  [data |-> data, attempts |-> attempts, attemptsMade |-> 0,
   state |-> "waiting", step |-> "none", returnvalue |-> None,
   failedReason |-> None]

CronIdle == [pc |-> "idle", runs |-> 0, todo |-> <<>>]

QueueInit ==
  /\ call = [fn |-> "none"]
  /\ matches = <<>>
  /\ nextMatchId = 1
  /\ creq = <<>>
  /\ greq = <<>>
  /\ mreq = <<>>
  /\ startups = StartupTable
  /\ ScoreIdle
  /\ clock = CalcNow
  /\ jobs = <<>>
  /\ jobReq = [r \in JobReqs |-> Idle]
  /\ cron = CronIdle
  /\ DiscoveryIdle

\* POST /generate-matches: the job is added and its id answered.
GenerateMatchesPost(r) ==
  /\ jobReq[r].pc = "idle"
  /\ Arrives(jobReq, r)
  /\ \E body \in JobBodies :
       IF body.investorId = None
       THEN /\ jobReq' = [jobReq EXCEPT ![r] =
                 [pc |-> "done", body |-> body, resp |-> 400, jobId |-> None]]
            /\ UNCHANGED jobs
       ELSE /\ jobs' = Append(jobs, NewJob(
                 [investorId |-> Val(body.investorId),
                  limit |-> IF body.limit = None THEN DefaultJobLimit
                            ELSE Val(body.limit),
                  priority |-> IF body.priority = None THEN "normal"
                               ELSE Val(body.priority)],
                 RequestAttempts))
            /\ jobReq' = [jobReq EXCEPT ![r] =
                 [pc |-> "done", body |-> body, resp |-> 200,
                  jobId |-> Some(Len(jobs) + 1)]]
  /\ UNCHANGED <<call, discVars, matchVars, startups, scoreVars, cron>>

\* POST /generate-matches: matchmakingQueue.add rejects.
GenerateMatchesPostFail(r) ==
  /\ jobReq[r].pc = "idle"
  /\ Arrives(jobReq, r)
  /\ \E body \in {b \in JobBodies : b.investorId # None} :
       jobReq' = [jobReq EXCEPT ![r] =
         [pc |-> "done", body |-> body, resp |-> 500, jobId |-> None]]
  /\ UNCHANGED <<call, discVars, matchVars, startups, scoreVars, jobs, cron>>

\* The schedule fires: getActiveInvestors.
CronFetch ==
  /\ cron.pc = "idle"
  /\ cron.runs < MaxCronRuns
  /\ \E investors \in ActiveInvestorLists :
       cron' = [pc |-> IF investors = <<>> THEN "idle" ELSE "add",
                runs |-> cron.runs + 1, todo |-> investors]
  /\ UNCHANGED <<call, discVars, matchVars, startups, scoreVars, jobs, jobReq>>

\* The schedule: matchmakingQueue.add for the next investor.
CronAdd ==
  /\ cron.pc = "add"
  /\ jobs' = Append(jobs, NewJob([investorId |-> Head(cron.todo),
                                  limit |-> CronLimit, priority |-> "low"],
                                 DefaultAttempts))
  /\ cron' = [cron EXCEPT !.todo = Tail(@),
                          !.pc = IF Tail(cron.todo) = <<>> THEN "idle"
                                 ELSE "add"]
  /\ UNCHANGED <<call, discVars, matchVars, startups, scoreVars, jobReq>>

\* The schedule: matchmakingQueue.add rejects and the run ends.
CronAddFail ==
  /\ cron.pc = "add"
  /\ cron' = [cron EXCEPT !.todo = <<>>, !.pc = "idle"]
  /\ UNCHANGED <<call, discVars, matchVars, startups, scoreVars, jobs, jobReq>>

\* The queue hands a waiting job to the processor.
JobStart(j) ==
  /\ jobs[j].state = "waiting"
  /\ \A k \in DOMAIN jobs : jobs[k].state # "active"
  /\ jobs' = [jobs EXCEPT ![j].state = "active", ![j].step = "investor"]
  /\ UNCHANGED <<call, discVars, matchVars, startups, scoreVars, jobReq, cron>>

\* generateMatchesForInvestor: getInvestorData answers the investor.
JobInvestor(j) ==
  /\ jobs[j].state = "active"
  /\ jobs[j].step = "investor"
  /\ jobs[j].data.investorId \in DOMAIN InvestorTable
  /\ jobs' = [jobs EXCEPT ![j].step = "projects"]
  /\ UNCHANGED <<call, discVars, matchVars, startups, scoreVars, jobReq, cron>>

\* generateMatchesForInvestor: getInvestorData returns null (no such
\* investor, or the request fails), 'Investor not found' is thrown, and the
\* queue delays or fails the job.
JobInvestorFail(j) ==
  /\ jobs[j].state = "active"
  /\ jobs[j].step = "investor"
  /\ jobs' = [jobs EXCEPT ![j] =
       [@ EXCEPT !.attemptsMade = @ + 1,
                 !.failedReason = Some("Investor not found"),
                 !.step = "none",
                 !.state = IF jobs[j].attemptsMade + 1 < jobs[j].attempts
                           THEN "delayed" ELSE "failed"]]
  /\ UNCHANGED <<call, discVars, matchVars, startups, scoreVars, jobReq, cron>>

\* The final scores scoreMatchesWithAI can give, for what the AI answers.
PostedScores == {0, 100}

\* scoreMatchesWithAI and slice: the matches the processor posts.
ScoredMatches(investorId, projects, score, limit) ==
  [i \in 1..MathMin(Len(projects), limit) |->
     [investorId |-> investorId, projectId |-> projects[i], score |-> score,
      reasons |-> <<"analysis">>, status |-> Some("pending")]]

\* saveMatch: POST /api/matchmaking with the match as body; whatever the
\* answer, saveMatch returns.  The Match table after it.
saveMatch(ms, id, match, ss) ==
  LET validatedData == createMatchSchema(match)
  IN  IF validatedData = None THEN ms
      ELSE IF findUnique(ms, match.investorId, match.startupId) # {} THEN ms
      ELSE LET created == matchCreate(ms, id, Val(validatedData), ss)
           IN  IF created = None THEN ms ELSE Val(created)

\* The loop over saveMatch: the Match table and the next id after it.
RECURSIVE SaveAll(_, _, _, _)
SaveAll(ms, id, posted, ss) ==
  IF posted = <<>> THEN [matches |-> ms, nextMatchId |-> id]
  ELSE LET saved == saveMatch(ms, id, Head(posted), ss)
       IN  SaveAll(saved, IF saved = ms THEN id ELSE id + 1, Tail(posted), ss)

JobFinishTo(j, posted, saved) ==
  /\ matches' = saved.matches
  /\ nextMatchId' = saved.nextMatchId
  /\ jobs' = [jobs EXCEPT ![j] =
       [@ EXCEPT !.state = "completed", !.step = "none",
                 !.returnvalue = Some([matches |-> Len(posted)])]]

SaveScored(posted) == SaveAll(matches, nextMatchId, posted, startups)

JobFinishWith(j, posted) == JobFinishTo(j, posted, SaveScored(posted))

\* The processor from getPotentialProjects to its return: the projects are
\* scored, the first limit of them posted by saveMatch, and their number
\* returned.
JobFinish(j) ==
  /\ jobs[j].state = "active"
  /\ jobs[j].step = "projects"
  /\ \E projects \in ProjectFetches, score \in PostedScores :
       JobFinishWith(j, ScoredMatches(jobs[j].data.investorId, projects, score,
                                      jobs[j].data.limit))
  /\ UNCHANGED <<call, discVars, creq, greq, mreq, startups, scoreVars, jobReq, cron>>

\* The backoff of a delayed job is over.
JobRetry(j) ==
  /\ jobs[j].state = "delayed"
  /\ jobs' = [jobs EXCEPT ![j].state = "waiting"]
  /\ UNCHANGED <<call, discVars, matchVars, startups, scoreVars, jobReq, cron>>

QueueNext ==
  \/ \E r \in JobReqs : GenerateMatchesPost(r)
  \/ \E r \in JobReqs : GenerateMatchesPostFail(r)
  \/ CronFetch
  \/ CronAdd
  \/ CronAddFail
  \/ \E j \in DOMAIN jobs : JobStart(j)
  \/ \E j \in DOMAIN jobs : JobInvestor(j)
  \/ \E j \in DOMAIN jobs : JobInvestorFail(j)
  \/ \E j \in DOMAIN jobs : JobFinish(j)
  \/ \E j \in DOMAIN jobs : JobRetry(j)

SpecQueue == QueueInit /\ [][QueueNext]_vars

(***************************************************************************)
(* Claims checked under SpecQueue.                                         *)
(***************************************************************************)
\* C20 (as claimed): a job that failed once because the investor lookup
\* failed is never handed to the processor again.
C20_FailedLookupIsNotRetried ==
  [][\A j \in DOMAIN jobs :
       ( /\ jobs[j].failedReason = Some("Investor not found")
         /\ jobs[j].state # "active" )
       => jobs'[j].state # "active"]_vars

\* The step of JobFinish(j): the processor returns.
JobCompleted(j) ==
  /\ jobs[j].state = "active"
  /\ jobs'[j].state = "completed"

\* C27: a job that completes with {matches: N} had exactly N Match records
\* of its investor accepted by POST /api/matchmaking.
C27_ReportedMatchesWereSaved ==
  [][\A j \in DOMAIN jobs :
       JobCompleted(j) =>
         Val(jobs'[j].returnvalue).matches
           = Cardinality({id \in DOMAIN matches' \ DOMAIN matches :
                            matches'[id].investorId = jobs[j].data.investorId})]_vars

(***************************************************************************)
(* SpecDiscovery: backend/src/routes/discovery.ts beside the create and    *)
(* update requests of backend/src/routes/startups.ts, the operations that  *)
(* write a startup's stage.  POST /discover saves what the mock finds, one *)
(* create at a time; PUT /:id/verify runs from one await to the next.      *)
(***************************************************************************)
NumDiscover == 1

NumVerify == 2

DiscoverReqs == 1..NumDiscover

VerifyReqs == 1..NumVerify

GhostDiscoveryId == 0

\* The number of entries of mockDiscoveries.
MockDiscoveries == 3

DefaultDiscoverLimit == 10

MaxDiscoverLimit == 50

\* The stages projectDataSchema lists.
ProjectStages == {"idea", "mvp", "early", "growth", "scale"}

\* discoverBusinessesSchema.parse, on the fields the mock reads.
discoverBusinessesSchema(body) ==
  LET limit == IF body.limit = None THEN DefaultDiscoverLimit
               ELSE Val(body.limit)
  IN  IF body.location # "" /\ limit >= 1 /\ limit <= MaxDiscoverLimit
      THEN Some([location |-> body.location, limit |-> limit])
      ELSE None

\* projectDataSchema.parse, on the fields the scores and matches read.
projectDataSchema(data) ==
  IF data.stage \in ProjectStages /\ data.teamSize > 0 /\ data.landType # ""
  THEN Some(data) ELSE None

\* verifyDiscoverySchema.parse.
verifyDiscoverySchema(body) ==
  IF /\ body.status \in {"verified", "rejected"}
     /\ \/ body.projectData = None
        \/ projectDataSchema(Val(body.projectData)) # None
  THEN Some(body) ELSE None

DiscoverBodies ==
  [location : {"Pune"}, limit : {None, Some(0), Some(1)}]
  \cup [location : {""}, limit : {Some(1)}]

ProjectDatas ==
  [githubUrl : {None}, twitterUrl : {None},
   stage : {"scale", "prototype"}, teamSize : {3},
   landType : {"agricultural"}, fundingRequired : {None},
   founderName : {"finder"}]

\* The PUT requests: the id in the path and the body.
VerifyRequests ==
  [id : {1}, body : [status : {"verified", "rejected"},
                     projectData : {None} \cup {Some(d) : d \in ProjectDatas}]]
  \cup [id : {1, GhostDiscoveryId},
        body : [status : {"verified"},
                projectData : {Some(d) : d \in {p \in ProjectDatas :
                                                  p.stage = "scale"}}]]
  \cup [id : {1}, body : [status : {"pending"}, projectData : {None}]]

\* The id of the startup row the verify request v creates.
ProjectId(v) == NumStartupCreate + v

DiscoveryInit ==
  /\ call = [fn |-> "none"]
  /\ matches = <<>>
  /\ nextMatchId = 1
  /\ creq = <<>>
  /\ greq = <<>>
  /\ mreq = <<>>
  /\ startups = <<>>
  /\ techScoreData = <<>>
  /\ socialScoreData = <<>>
  /\ giAnalysisData = <<>>
  /\ agriTechMetrics = <<>>
  /\ clock = CalcNow
  /\ startupReq = [r \in StartupCreateReqs |-> Idle]
  /\ updateReq = [u \in StartupUpdateReqs |-> Idle]
  /\ calcReq = <<>>
  /\ scoresReq = <<>>
  /\ QueueIdle
  /\ discoveries = <<>>
  /\ discoverReq = [r \in DiscoverReqs |-> Idle]
  /\ verifyReq = [v \in VerifyReqs |-> Idle]

\* POST /api/discovery/discover up to the list discoverBusinessesInLocation
\* returns: the first Math.min(limit, 3) of the shuffled mock entries.
DiscoverStart(r) ==
  /\ discoverReq[r].pc = "idle"
  /\ Arrives(discoverReq, r)
  /\ \E body \in DiscoverBodies :
       discoverReq' = [discoverReq EXCEPT ![r] =
         LET parsed == discoverBusinessesSchema(body)
         IN  IF parsed = None
             THEN [pc |-> "done", body |-> body, left |-> 0, resp |-> 400]
             ELSE [pc |-> "save", body |-> body,
                   left |-> MathMin(Val(parsed).limit, MockDiscoveries),
                   resp |-> 0]]
  /\ UNCHANGED <<call, matchVars, startups, scoreVars, queueVars,
                 discoveries, verifyReq>>

\* POST /api/discovery/discover: one geoSocialDiscovery.create of the loop;
\* the response follows the last.
DiscoverSave(r) ==
  /\ discoverReq[r].pc = "save"
  /\ discoveries' = Put(discoveries, Cardinality(DOMAIN discoveries) + 1,
       [status |-> "pending", location |-> discoverReq[r].body.location])
  /\ discoverReq' = [discoverReq EXCEPT ![r] =
       IF @.left = 1 THEN [@ EXCEPT !.pc = "done", !.left = 0, !.resp = 200]
       ELSE [@ EXCEPT !.left = @ - 1]]
  /\ UNCHANGED <<call, matchVars, startups, scoreVars, queueVars, verifyReq>>

\* PUT /api/discovery/:id/verify up to the answer of findUnique.
VerifyLookup(v) ==
  /\ verifyReq[v].pc = "idle"
  /\ Arrives(verifyReq, v)
  /\ \E put \in VerifyRequests :
       verifyReq' = [verifyReq EXCEPT ![v] =
         LET req == [pc |-> "done", id |-> put.id, body |-> put.body,
                     project |-> None, resp |-> 0]
         IN  IF verifyDiscoverySchema(put.body) = None
             THEN [req EXCEPT !.resp = 400]
             ELSE IF put.id \notin DOMAIN discoveries
             THEN [req EXCEPT !.resp = 404]
             ELSE IF put.body.status = "verified"
                     /\ put.body.projectData # None
             THEN [req EXCEPT !.pc = "create"]
             ELSE [req EXCEPT !.pc = "reject"]]
  /\ UNCHANGED <<call, matchVars, startups, scoreVars, queueVars,
                 discoveries, discoverReq>>

\* PUT /api/discovery/:id/verify: agriTechStartup.create from projectData.
VerifyCreate(v) ==
  /\ verifyReq[v].pc = "create"
  /\ LET projectData == Val(verifyReq[v].body.projectData)
     IN  startups' = Put(startups, ProjectId(v),
           [githubUrl |-> projectData.githubUrl,
            twitterUrl |-> projectData.twitterUrl,
            stage |-> projectData.stage, teamSize |-> projectData.teamSize,
            landType |-> projectData.landType,
            fundingRequired |-> projectData.fundingRequired,
            founder |-> projectData.founderName, techScore |-> DefaultScore,
            socialScore |-> DefaultScore, overallScore |-> DefaultScore,
            giScore |-> DefaultScore, giCertified |-> FALSE])
  /\ verifyReq' = [verifyReq EXCEPT ![v].pc = "update",
                                    ![v].project = Some(ProjectId(v))]
  /\ UNCHANGED <<call, matchVars, scoreVars, queueVars, discoveries,
                 discoverReq>>

\* PUT /api/discovery/:id/verify: agriTechStartup.create throws and the
\* catch block answers 500.
VerifyCreateFail(v) ==
  /\ verifyReq[v].pc = "create"
  /\ verifyReq' = [verifyReq EXCEPT ![v].pc = "done", ![v].resp = 500]
  /\ UNCHANGED <<call, matchVars, startups, scoreVars, queueVars,
                 discoveries, discoverReq>>

\* PUT /api/discovery/:id/verify: the update after the create, then the
\* response.
VerifyUpdate(v) ==
  /\ verifyReq[v].pc = "update"
  /\ discoveries' = [discoveries EXCEPT ![verifyReq[v].id].status = "verified"]
  /\ verifyReq' = [verifyReq EXCEPT ![v].pc = "done", ![v].resp = 200]
  /\ UNCHANGED <<call, matchVars, startups, scoreVars, queueVars, discoverReq>>

\* PUT /api/discovery/:id/verify: the else branch, then the response.
VerifyReject(v) ==
  /\ verifyReq[v].pc = "reject"
  /\ discoveries' = [discoveries EXCEPT ![verifyReq[v].id].status = "rejected"]
  /\ verifyReq' = [verifyReq EXCEPT ![v].pc = "done", ![v].resp = 200]
  /\ UNCHANGED <<call, matchVars, startups, scoreVars, queueVars, discoverReq>>

DiscoveryNext ==
  \/ \E r \in DiscoverReqs : DiscoverStart(r) \/ DiscoverSave(r)
  \/ \E v \in VerifyReqs :
       \/ VerifyLookup(v)
       \/ VerifyCreate(v)
       \/ VerifyCreateFail(v)
       \/ VerifyUpdate(v)
       \/ VerifyReject(v)
  \/ \E r \in StartupCreateReqs :
       \/ StartupCreate(r)
       \/ GIAnalysisFail(r)
       \/ GIAnalysisSave(r)
       \/ GIStartupUpdate(r)
  \/ \E u \in StartupUpdateReqs :
       StartupUpdateLookup(u) \/ StartupUpdateWrite(u)

SpecDiscovery == DiscoveryInit /\ [][DiscoveryNext]_vars

(***************************************************************************)
(* The claims checked under SpecDiscovery.                                 *)
(***************************************************************************)
\* C23: the stage of every stored startup is one of idea, mvp, early,
\* growth, scale, and POST /api/startups, PUT /api/startups/:id and a
\* verification with projectData each refuse every other stage and accept
\* each of these five.
C23_StageIsOneOfTheFive ==
  /\ \A id \in DOMAIN startups : startups[id].stage \in ProjectStages
  /\ \A r \in StartupCreateReqs :
       startupReq[r].pc # "idle"
       => (startupReq[r].resp = 400
             <=> startupReq[r].body.stage \notin ProjectStages)
  /\ \A u \in StartupUpdateReqs :
       (updateReq[u].pc # "idle" /\ updateReq[u].body.stage # None)
       => (updateReq[u].resp = 400
             <=> Val(updateReq[u].body.stage) \notin ProjectStages)
  /\ \A v \in VerifyReqs :
       ( /\ verifyReq[v].pc # "idle"
         /\ verifyReq[v].body.status = "verified"
         /\ verifyReq[v].body.projectData # None )
       => (verifyReq[v].resp = 400
             <=> Val(verifyReq[v].body.projectData).stage \notin ProjectStages)

\* C25: no step of a verify request whose status is "verified" turns a
\* discovery's status into "rejected".
C25_VerifiedNeverRejects ==
  [][\A v \in VerifyReqs :
       ( /\ verifyReq'[v] # verifyReq[v]
         /\ verifyReq'[v].body.status = "verified" )
       => \A d \in DOMAIN discoveries :
            discoveries'[d].status = "rejected"
            => discoveries[d].status = "rejected"]_vars

\* The verify requests that created a startup from discovery d.
CreatedFrom(d) ==
  {v \in VerifyReqs :
     /\ verifyReq[v].pc # "idle"
     /\ verifyReq[v].id = d
     /\ verifyReq[v].project # None}

\* C26: at most one startup is created from a discovery, whatever verify
\* requests it gets; a discovery is verified only if a startup was created
\* from it; a failed startup creation leaves the discoveries as they were.
C26_OneStartupPerDiscovery ==
  /\ [](\A d \in DOMAIN discoveries :
          /\ Cardinality(CreatedFrom(d)) <= 1
          /\ (discoveries[d].status = "verified" => CreatedFrom(d) # {}))
  /\ [][\A v \in VerifyReqs :
          (verifyReq[v].pc = "create" /\ verifyReq'[v].resp = 500)
          => discoveries' = discoveries]_vars

====
